---- MODULE Spec2Model ----
(***************************************************************************)
(* A model of the IMAP synchronisation core of imap-browser: the           *)
(* connection pool (ImapConnectionPool), the folder and message            *)
(* synchroniser (ImapSyncService) and the mutation executor (EmailService).*)
(* Every async method is cut at its awaits: one action per segment that    *)
(* runs without yielding, a task record holding the method's locals.       *)
(***************************************************************************)
EXTENDS Integers, Sequences, FiniteSets, TLC

(***************************************************************************)
(* Bounds of the model.                                                    *)
(***************************************************************************)
MaxClients == 3
MaxTime == 2
MaxRows == 5
MaxUid == 2

\* maxIdleTime of the pool, in units of 30 minutes (the clock's tick).
maxIdleTime == 1

Accounts == {"acc1", "acc2"}
Users == {"u1", "u2"}
Tasks == {"t1", "t2"}
Paths == {"INBOX", "Work"}
Uids == 1 .. MaxUid
UidValidities == 1 .. 2
Flags == {"\\Seen", "\\Flagged"}

NoRow == [none |-> TRUE]
NoConn == [none |-> TRUE]
Null == "null"
\* null in a numeric column or field (no UID, count or validity is negative).
NullNumber == 0 - 1

VARIABLES
    now,          \* Date.now(), in ticks
    tasks,        \* the async calls in flight: their position and locals
    connections,  \* ImapConnectionPool.connections: accountId -> ConnectionInfo
    clients,      \* every ImapFlow client created so far, in creation order
    emitted,      \* the 'newMail' events the pool has emitted to its listeners
    accountsDb,   \* the accounts table: accountId -> row
    folders,      \* the folders table: a set of rows
    messages,     \* the messages table: a set of rows
    messageBodies, \* the message_bodies table: a set of rows
    attachments,  \* the attachments table: a set of rows
    nextId,       \* the ids handed out so far (uuidv4 never repeats)
    server,       \* the remote IMAP server: accountId -> path -> mailbox
    cmdLog,       \* the mutating IMAP commands issued, in order
    pushed,       \* the 'exists' and 'flags' events the clients have raised (for the properties)
    hist,         \* per task: what the call saw when it started (for the properties)
    lastCall,     \* the call that returned last, and whether the server changed since
    cache,        \* AutoconfigService's cache: domain -> { result, timestamp }
    net,          \* what DNS and the autoconfig hosts answer for a domain at present
    wsClients,    \* WebSocketManager.clients: connectionId -> ClientConnection
    userConnections, \* WebSocketManager.userConnections: userId -> connectionIds
    wsSent        \* what the last handler of the WebSocket layer sent, and to whom

poolVars == <<connections, clients, emitted>>
dbVars == <<accountsDb, folders, messages, messageBodies, attachments, nextId>>
srvVars == <<server, cmdLog>>
histVars == <<hist, lastCall, pushed>>
autoVars == <<cache, net>>
wsVars == <<wsClients, userConnections, wsSent>>
vars == <<now, cache, net, wsClients, userConnections, wsSent, tasks, hist, lastCall, pushed, connections, clients, emitted, accountsDb, folders,
          messages, messageBodies, attachments, nextId, server, cmdLog>>

(***************************************************************************)
(* Helpers.                                                                *)
(***************************************************************************)
Range(s) == {s[i] : i \in DOMAIN s}

NoDup(s) == \A i, j \in DOMAIN s : i # j => s[i] # s[j]

\* The sequences over S without repetition (the arrays a JS Set turns into).
RECURSIVE Orders(_)
Orders(S) ==
    IF S = {} THEN {<<>>}
    ELSE UNION {{<<x>> \o r : r \in Orders(S \ {x})} : x \in S}

FlagLists == UNION {Orders(F) : F \in SUBSET Flags}

\* s without the elements of R, order kept (Array.prototype.filter).
RECURSIVE Filter(_, _)
Filter(s, R) ==
    IF s = <<>> THEN <<>>
    ELSE IF s[1] \in R THEN Filter(Tail(s), R)
         ELSE <<s[1]>> \o Filter(Tail(s), R)

\* [...new Set(s)]: the first occurrence of each element, order kept.
RECURSIVE Dedupe(_)
Dedupe(s) ==
    IF s = <<>> THEN <<>>
    ELSE <<s[1]>> \o Dedupe(Filter(Tail(s), {s[1]}))

\* A task record: the call, its position, and the locals of the methods.
IdleTask ==
    [op |-> "none", pc |-> "idle", acct |-> "", client |-> 0, error |-> "",
     user |-> "",
     \* syncFolders
     stamp |-> 0, listed |-> <<>>, todo |-> <<>>, existingPaths |-> {},
     seenPaths |-> {},
     \* syncFolder
     path |-> "", folder |-> NoRow, mailbox |-> NoRow,
     uidValidityChanged |-> FALSE, existingUids |-> <<>>, fetched |-> <<>>,
     fetchError |-> FALSE, insertErrors |-> 0,
     \* insertMessage: the attachments still to insert, the id of the message
     attTodo |-> <<>>, insertedId |-> 0,
     \* the message rows the call has written (for the properties)
     rowsAdded |-> 0,
     newMessages |-> 0, updatedMessages |-> 0, unreadCount |-> 0,
     \* updateFlags
     emailIds |-> {}, addFlags |-> <<>>, removeFlags |-> <<>>,
     messageRows |-> <<>>, byFolder |-> <<>>,
     \* moveMessages
     targetFolderId |-> 0, targetFolder |-> NoRow,
     \* deleteMessages: the method that called the one in `op`, if any
     outer |-> "", permanent |-> FALSE, folderIds |-> <<>>,
     \* getEmail, fetchMessageBody
     messageId |-> 0, message |-> NoRow, body |-> NoRow,
     textBody |-> Null, htmlBody |-> Null,
     \* AutoconfigService.lookup: the sources consulted so far, in order
     email |-> "", domain |-> Null, consulted |-> <<>>, result |-> NoRow,
     fromCache |-> FALSE]

NoHist == [none |-> TRUE]

\* No entry in the autoconfig cache.
NoEntry == [none |-> TRUE]

\* The call that returned last: what it was, whether it succeeded, whether the
\* server has kept still since it started, and for updateFlags its arguments
\* and the message rows it found.
NoCall == [op |-> "none", acct |-> "", ok |-> FALSE, clean |-> FALSE,
           emailIds |-> {}, addFlags |-> <<>>, removeFlags |-> <<>>, pre |-> {}]

(***************************************************************************)
(* ImapConnectionPool.                                                     *)
(***************************************************************************)
ConnectionInfo(c) ==
    [client |-> c, isConnected |-> TRUE, isIdle |-> FALSE, lastActivity |-> now,
     selectedMailbox |-> Null]

\* Where a method goes on once getConnection has handed it the client.
AfterGetConnection(op) ==
    CASE op = "syncFolders" -> "sfs_list"
      [] op = "syncFolder" -> "sf_findFolder"
      [] op = "updateFlags" -> "uf_query"
      [] op = "moveMessages" -> "mv_query"
      [] op = "deleteMessages" -> "dm_folder"
      [] op = "getEmail" -> "fmb_open"
      [] OTHER -> "done"

\* Where a method goes on once connect() has returned the client.
AfterConnect(op) ==
    IF op = "createAccount" THEN "getConnection" ELSE AfterGetConnection(op)

Fail(task, msg) == [task EXCEPT !.pc = "failed", !.error = msg]

\* getConnection: the live session if the pool has one, otherwise connect().
GetConnection(t) ==
    /\ tasks[t].pc = "getConnection"
    /\ LET a == tasks[t].acct
           existing == connections[a]
       IN IF existing # NoConn /\ existing.isConnected
          THEN /\ connections' = [connections EXCEPT ![a].lastActivity = now]
               /\ tasks' = [tasks EXCEPT ![t].client = existing.client,
                                         ![t].pc = AfterGetConnection(tasks[t].op)]
          ELSE /\ tasks' = [tasks EXCEPT ![t].pc = "connect"]
               /\ UNCHANGED connections
    /\ UNCHANGED <<now, autoVars, wsVars, emitted, histVars, clients, dbVars, srvVars>>

\* connect, up to client.connect(): the account row is read, the credentials
\* decrypted, the client created and its connect started.
ConnectOpen(t) ==
    /\ tasks[t].pc = "connect"
    /\ IF accountsDb[tasks[t].acct] = NoRow
       THEN /\ tasks' = [tasks EXCEPT ![t] = Fail(@, "Account not found")]
            /\ UNCHANGED clients
       ELSE /\ Len(clients) < MaxClients
            /\ clients' = Append(clients, [accountId |-> tasks[t].acct,
                                           state |-> "connecting",
                                           selected |-> Null])
            /\ tasks' = [tasks EXCEPT ![t].client = Len(clients) + 1,
                                      ![t].pc = "connecting"]
    /\ UNCHANGED <<now, autoVars, wsVars, emitted, histVars, connections, dbVars, srvVars>>

\* connect, before the try block: deriving the key or decrypting the stored
\* credentials throws (the user's password does not open them), and connect
\* throws with it.
ConnectDecryptFail(t) ==
    /\ tasks[t].pc = "connect"
    /\ accountsDb[tasks[t].acct] # NoRow
    /\ tasks' = [tasks EXCEPT ![t] = Fail(@, "decrypt failed")]
    /\ UNCHANGED <<now, autoVars, wsVars, histVars, poolVars, dbVars, srvVars>>

\* The pool's record of a freshly connected client.
RecordConnection(a, c) == [connections EXCEPT ![a] = ConnectionInfo(c)]

\* client.connect() resolved: the session is recorded in the pool.
ConnectSucceed(t) ==
    /\ tasks[t].pc = "connecting"
    /\ clients' = [clients EXCEPT ![tasks[t].client].state = "connected"]
    /\ connections' = RecordConnection(tasks[t].acct, tasks[t].client)
    /\ tasks' = [tasks EXCEPT ![t].pc = "connect_persistOk"]
    /\ UNCHANGED <<now, autoVars, wsVars, emitted, histVars, dbVars, srvVars>>

\* client.connect() rejected (authentication, network, TLS).
ConnectFail(t) ==
    /\ tasks[t].pc = "connecting"
    /\ clients' = [clients EXCEPT ![tasks[t].client].state = "closed"]
    /\ tasks' = [tasks EXCEPT ![t].pc = "connect_persistErr"]
    /\ UNCHANGED <<now, autoVars, wsVars, emitted, histVars, connections, dbVars, srvVars>>

\* connect, after the session was recorded: the account row says connected.
ConnectPersistOk(t) ==
    /\ tasks[t].pc = "connect_persistOk"
    /\ accountsDb' = [accountsDb EXCEPT ![tasks[t].acct].isConnected = TRUE,
                                        ![tasks[t].acct].lastError = Null]
    /\ tasks' = [tasks EXCEPT ![t].pc = AfterConnect(tasks[t].op)]
    /\ UNCHANGED <<now, autoVars, wsVars, histVars, poolVars, folders, messages, messageBodies, attachments, nextId, srvVars>>

\* connect, the catch block: the account row holds the error, which is rethrown.
ConnectPersistErr(t) ==
    /\ tasks[t].pc = "connect_persistErr"
    /\ accountsDb' = [accountsDb EXCEPT ![tasks[t].acct].isConnected = FALSE,
                                        ![tasks[t].acct].lastError = "connect failed"]
    /\ tasks' = [tasks EXCEPT ![t] = Fail(@, "connect failed")]
    /\ UNCHANGED <<now, autoVars, wsVars, histVars, poolVars, folders, messages, messageBodies, attachments, nextId, srvVars>>

\* An error or close event that leaves the pool's entry as it is.
MarkNotConnectedKeep(a) == connections

\* handleError and handleDisconnect: the entry the pool holds for the account,
\* whichever client it is for, is marked not connected.
MarkNotConnected(a) ==
    IF connections[a] # NoConn
    THEN [connections EXCEPT ![a].isConnected = FALSE]
    ELSE connections

\* disconnect, up to the await of client.logout().
DisconnectBegin(t) ==
    /\ tasks[t].pc = "disconnect"
    /\ LET info == connections[tasks[t].acct]
       IN IF info = NoConn
          THEN tasks' = [tasks EXCEPT ![t].pc = "done"]
          ELSE tasks' = [tasks EXCEPT ![t].client = info.client,
                                      ![t].pc = "disconnect_logout"]
    /\ UNCHANGED <<now, autoVars, wsVars, histVars, poolVars, dbVars, srvVars>>

\* disconnect without its connections.delete.
DropConnectionKeep(a) == connections

\* The pool's map once disconnect has dropped the account's entry.
DropConnection(a) == [connections EXCEPT ![a] = NoConn]

\* logout() returned: the client is closed, its 'close' event has run
\* handleDisconnect, and disconnect deletes the account's entry.
DisconnectLogoutOk(t) ==
    /\ tasks[t].pc = "disconnect_logout"
    /\ clients' = [clients EXCEPT ![tasks[t].client].state = "closed"]
    /\ connections' = DropConnection(tasks[t].acct)
    /\ tasks' = [tasks EXCEPT ![t].pc = "disconnect_persist"]
    /\ UNCHANGED <<now, autoVars, wsVars, emitted, histVars, dbVars, srvVars>>

\* logout() threw: the error is ignored (the client has torn its socket down
\* all the same), and disconnect deletes the account's entry.
DisconnectLogoutFail(t) ==
    /\ tasks[t].pc = "disconnect_logout"
    /\ clients' = [clients EXCEPT ![tasks[t].client].state = "closed"]
    /\ connections' = DropConnection(tasks[t].acct)
    /\ tasks' = [tasks EXCEPT ![t].pc = "disconnect_persist",
                              ![t].error = "logout failed (ignored)"]
    /\ UNCHANGED <<now, autoVars, wsVars, emitted, histVars, dbVars, srvVars>>

\* disconnect, the end: the account row says not connected.
DisconnectPersist(t) ==
    /\ tasks[t].pc = "disconnect_persist"
    /\ accountsDb' = [accountsDb EXCEPT ![tasks[t].acct] =
                        IF @ = NoRow THEN @ ELSE [@ EXCEPT !.isConnected = FALSE]]
    /\ tasks' = [tasks EXCEPT ![t].pc = "done"]
    /\ UNCHANGED <<now, autoVars, wsVars, histVars, poolVars, folders, messages, messageBodies, attachments, nextId, srvVars>>

\* The client emits 'error': handleError.
ClientError(c) ==
    /\ c \in DOMAIN clients
    /\ clients[c].state = "connected"
    /\ connections' = MarkNotConnected(clients[c].accountId)
    /\ connections' # connections
    /\ UNCHANGED <<now, autoVars, wsVars, emitted, tasks, histVars, clients, dbVars, srvVars>>

\* The connection of a client drops: it is closed and emits 'close':
\* handleDisconnect.
ClientClose(c) ==
    /\ c \in DOMAIN clients
    /\ clients[c].state = "connected"
    /\ clients' = [clients EXCEPT ![c].state = "closed"]
    /\ connections' = MarkNotConnected(clients[c].accountId)
    /\ UNCHANGED <<now, autoVars, wsVars, emitted, tasks, histVars, dbVars, srvVars>>

\* The client raises 'exists' for its selected mailbox, whose message count
\* went from prevCount to count: handleNewMail refreshes lastActivity and emits
\* 'newMail' with the difference when it is positive.
ClientExists(c, count, prevCount) ==
    /\ c \in DOMAIN clients
    /\ clients[c].state = "connected"
    /\ clients[c].selected # Null
    /\ count # prevCount
    /\ LET a == clients[c].accountId
           path == clients[c].selected
       IN /\ connections' = IF connections[a] # NoConn
                            THEN [connections EXCEPT ![a].lastActivity = now]
                            ELSE connections
          /\ emitted' = IF count - prevCount > 0
                        THEN emitted \cup {[accountId |-> a, path |-> path,
                                            count |-> count - prevCount]}
                        ELSE emitted
          /\ pushed' = pushed \cup {[kind |-> "exists", accountId |-> a,
                                     path |-> path,
                                     grew |-> count > prevCount]}
    /\ UNCHANGED <<now, autoVars, wsVars, tasks, hist, lastCall, clients, dbVars, srvVars>>

\* The client raises 'flags' for a message of its selected mailbox:
\* handleFlagsUpdate has an empty body.
ClientFlags(c) ==
    /\ c \in DOMAIN clients
    /\ clients[c].state = "connected"
    /\ clients[c].selected # Null
    /\ pushed' = pushed \cup {[kind |-> "flags",
                               accountId |-> clients[c].accountId,
                               path |-> clients[c].selected,
                               grew |-> FALSE]}
    /\ UNCHANGED <<now, autoVars, wsVars, tasks, hist, lastCall, poolVars, dbVars, srvVars>>

\* Date.now() advances.
Tick ==
    /\ now < MaxTime
    /\ now' = now + 1
    /\ UNCHANGED <<autoVars, wsVars, tasks, histVars, poolVars, dbVars, srvVars>>

\* A call has returned or thrown: its task record is free again, and the call
\* is remembered as the last one.
Finished(t, call) ==
    /\ tasks[t].pc \in {"done", "failed"}
    /\ tasks' = [tasks EXCEPT ![t] = IdleTask]
    /\ hist' = [hist EXCEPT ![t] = NoHist]
    /\ lastCall' = IF hist[t] = NoHist THEN lastCall ELSE call
    /\ cmdLog' = SelectSeq(cmdLog, LAMBDA e : e.task # t)
    /\ UNCHANGED <<now, autoVars, wsVars, pushed, poolVars, dbVars, server>>

Finish(t) ==
    Finished(t, [NoCall EXCEPT !.op = tasks[t].op, !.acct = tasks[t].acct,
                               !.ok = tasks[t].pc = "done",
                               !.clean = ~hist[t].dirty])

\* The same, the arguments of the call and the message rows it started from
\* remembered as well.
FinishUpdateFlags(t) ==
    Finished(t, [op |-> tasks[t].op, acct |-> tasks[t].acct,
                 ok |-> tasks[t].pc = "done", clean |-> ~hist[t].dirty,
                 emailIds |-> tasks[t].emailIds,
                 addFlags |-> tasks[t].addFlags,
                 removeFlags |-> tasks[t].removeFlags,
                 pre |-> hist[t].preMessages])

\* A caller asks the pool for the account's session.
StartGetConnection(t, a) ==
    /\ tasks[t].pc = "idle"
    /\ tasks' = [tasks EXCEPT ![t] = [IdleTask EXCEPT !.op = "getConnection",
                                      !.acct = a, !.pc = "getConnection"]]
    /\ UNCHANGED <<now, autoVars, wsVars, histVars, poolVars, dbVars, srvVars>>

\* updateAccount or deleteAccount disconnects the account.
StartDisconnect(t, a) ==
    /\ tasks[t].pc = "idle"
    /\ tasks' = [tasks EXCEPT ![t] = [IdleTask EXCEPT !.op = "disconnect",
                                      !.acct = a, !.pc = "disconnect"]]
    /\ UNCHANGED <<now, autoVars, wsVars, histVars, poolVars, dbVars, srvVars>>

\* cleanupStaleConnections: a session idle for longer than maxIdleTime is
\* disconnected.
SweepDisconnect(t, a) ==
    /\ tasks[t].pc = "idle"
    /\ connections[a] # NoConn
    /\ now - connections[a].lastActivity > maxIdleTime
    /\ tasks' = [tasks EXCEPT ![t] = [IdleTask EXCEPT !.op = "sweep",
                                      !.acct = a, !.pc = "disconnect"]]
    /\ UNCHANGED <<now, autoVars, wsVars, histVars, poolVars, dbVars, srvVars>>

PoolSteps(t) ==
    \/ ConnectDecryptFail(t)
    \/ GetConnection(t)
    \/ ConnectOpen(t)
    \/ ConnectSucceed(t)
    \/ ConnectFail(t)
    \/ ConnectPersistOk(t)
    \/ ConnectPersistErr(t)

DisconnectSteps(t) ==
    \/ DisconnectBegin(t)
    \/ DisconnectLogoutOk(t)
    \/ DisconnectLogoutFail(t)
    \/ DisconnectPersist(t)

AccountRow(u) == [userId |-> u, isConnected |-> FALSE, lastError |-> Null]

(***************************************************************************)
(* Local storage: the folders and messages tables (sqlite, foreign keys    *)
(* on).                                                                    *)
(***************************************************************************)
\* uniqueIndex('folders_account_path_idx').on(accountId, path)
FolderInsertAllowed(rows, row) ==
    ~\E f \in rows : f.accountId = row.accountId /\ f.path = row.path

\* The table without its unique index: only the reference is enforced.
MessageInsertAllowedNoIndex(rows, row) ==
    \E f \in folders : f.id = row.folderId

\* uniqueIndex('messages_folder_uid_idx').on(folderId, uid), and the
\* reference of folderId to folders.id
MessageInsertAllowed(rows, row) ==
    /\ ~\E m \in rows : m.folderId = row.folderId /\ m.uid = row.uid
    /\ \E f \in folders : f.id = row.folderId

\* folders.id is referenced with onDelete: 'cascade'
CascadeMessages(msgs, keptFolders) ==
    {m \in msgs : \E f \in keptFolders : f.id = m.folderId}

\* messages.id is referenced by message_bodies with onDelete: 'cascade'
CascadeBodies(bodies, keptMessages) ==
    {b \in bodies : \E m \in keptMessages : m.id = b.messageId}

\* messages.id is referenced by attachments with onDelete: 'cascade'
CascadeAttachments(atts, keptMessages) ==
    {x \in atts : \E m \in keptMessages : m.id = x.messageId}

FolderOf(a, p) == {f \in folders : f.accountId = a /\ f.path = p}

MessagesIn(folderId) == {m \in messages : m.folderId = folderId}

UidsIn(folderId) == {m.uid : m \in MessagesIn(folderId)}

(***************************************************************************)
(* The remote IMAP server.  A mailbox is [uidValidity, uidNext, msgs],      *)
(* msgs a function from the UIDs present to the flags of each, in the      *)
(* order the server reports them.                                          *)
(***************************************************************************)
EmptyMailbox ==
    [uidValidity |-> 1, uidNext |-> 1, msgs |-> <<>>, specialUse |-> Null,
     structures |-> <<>>]

\* The BODYSTRUCTURE of a message, where the mailbox records one: a tree of
\* nodes [disposition, childNodes].  Without a record the message is a single
\* text part.
TextPart == [disposition |-> Null, childNodes |-> <<>>]

StructureOf(mb, u) ==
    IF u \in DOMAIN mb.structures THEN mb.structures[u] ELSE TextPart

PathSeq == <<"INBOX", "Work">>

\* Every call in flight learns that the server changed under it.
Dirty(h) == [t \in Tasks |-> IF h[t] = NoHist THEN h[t] ELSE [h[t] EXCEPT !.dirty = TRUE]]

\* The ascending sequence of a finite set of numbers.
RECURSIVE Ascending(_)
Ascending(S) ==
    IF S = {} THEN <<>>
    ELSE LET m == CHOOSE x \in S : \A y \in S : x <= y
         IN <<m>> \o Ascending(S \ {m})

\* A message arrives in a mailbox and takes the next UID.
ServerDeliver(a, p, fl) ==
    /\ p \in DOMAIN server[a]
    /\ server[a][p].uidNext \in Uids
    /\ LET mb == server[a][p]
           u == mb.uidNext
       IN server' = [server EXCEPT ![a][p] =
                       [mb EXCEPT !.uidNext = u + 1,
                                  !.msgs = [x \in DOMAIN mb.msgs \cup {u} |->
                                              IF x = u THEN fl ELSE mb.msgs[x]]]]
    /\ hist' = Dirty(hist)
    /\ lastCall' = [lastCall EXCEPT !.clean = FALSE]
    /\ UNCHANGED <<now, autoVars, wsVars, pushed, tasks, poolVars, dbVars, cmdLog>>

\* Another client expunges a message.
ServerExpunge(a, p, u) ==
    /\ p \in DOMAIN server[a]
    /\ u \in DOMAIN server[a][p].msgs
    /\ server' = [server EXCEPT ![a][p].msgs =
                    [x \in DOMAIN @ \ {u} |-> @[x]]]
    /\ hist' = Dirty(hist)
    /\ lastCall' = [lastCall EXCEPT !.clean = FALSE]
    /\ UNCHANGED <<now, autoVars, wsVars, pushed, tasks, poolVars, dbVars, cmdLog>>

\* Another client changes the flags of a message.
ServerSetFlags(a, p, u, fl) ==
    /\ p \in DOMAIN server[a]
    /\ u \in DOMAIN server[a][p].msgs
    /\ server[a][p].msgs[u] # fl
    /\ server' = [server EXCEPT ![a][p].msgs[u] = fl]
    /\ hist' = Dirty(hist)
    /\ lastCall' = [lastCall EXCEPT !.clean = FALSE]
    /\ UNCHANGED <<now, autoVars, wsVars, pushed, tasks, poolVars, dbVars, cmdLog>>

\* The provider renumbers a mailbox: a new UIDVALIDITY, the messages kept
\* under UIDs counted again from 1.
ServerRenumber(a, p) ==
    /\ p \in DOMAIN server[a]
    /\ server[a][p].uidValidity + 1 \in UidValidities
    /\ LET mb == server[a][p]
           old == Ascending(DOMAIN mb.msgs)
       IN server' = [server EXCEPT ![a][p] =
                       [mb EXCEPT !.uidValidity = mb.uidValidity + 1,
                                  !.uidNext = Len(old) + 1,
                                  !.msgs = [i \in 1 .. Len(old) |-> mb.msgs[old[i]]],
                                  !.structures =
                                     [i \in {j \in 1 .. Len(old) :
                                                old[j] \in DOMAIN mb.structures} |->
                                        mb.structures[old[i]]]]]
    /\ hist' = Dirty(hist)
    /\ lastCall' = [lastCall EXCEPT !.clean = FALSE]
    /\ UNCHANGED <<now, autoVars, wsVars, pushed, tasks, poolVars, dbVars, cmdLog>>

\* A mailbox is created on the server.
ServerCreateMailbox(a, p) ==
    /\ p \notin DOMAIN server[a]
    /\ server' = [server EXCEPT ![a] =
                    [q \in DOMAIN @ \cup {p} |-> IF q = p THEN EmptyMailbox ELSE @[q]]]
    /\ hist' = Dirty(hist)
    /\ lastCall' = [lastCall EXCEPT !.clean = FALSE]
    /\ UNCHANGED <<now, autoVars, wsVars, pushed, tasks, poolVars, dbVars, cmdLog>>

\* A mailbox is deleted on the server.
\* The special-use attributes a listing can declare for a mailbox (RFC 6154).
SpecialUseAttributes ==
    {"\\All", "\\Archive", "\\Drafts", "\\Flagged", "\\Junk", "\\Sent", "\\Trash"}

\* Another client creates a mailbox that the server lists with a special-use
\* attribute.
ServerCreateDeclared(a, p, use) ==
    /\ p \notin DOMAIN server[a]
    /\ server' = [server EXCEPT ![a] =
                    [q \in DOMAIN @ \cup {p} |->
                        IF q = p THEN [EmptyMailbox EXCEPT !.specialUse = use]
                        ELSE @[q]]]
    /\ hist' = Dirty(hist)
    /\ lastCall' = [lastCall EXCEPT !.clean = FALSE]
    /\ UNCHANGED <<now, autoVars, wsVars, pushed, tasks, poolVars, dbVars, cmdLog>>

ServerDeleteMailbox(a, p) ==
    /\ p \in DOMAIN server[a]
    /\ p # "INBOX"
    /\ server' = [server EXCEPT ![a] = [q \in DOMAIN @ \ {p} |-> @[q]]]
    /\ hist' = Dirty(hist)
    /\ lastCall' = [lastCall EXCEPT !.clean = FALSE]
    /\ UNCHANGED <<now, autoVars, wsVars, pushed, tasks, poolVars, dbVars, cmdLog>>

\* An IMAP command can be carried out on the client the task holds.
Usable(c) == c \in DOMAIN clients /\ clients[c].state = "connected"

(***************************************************************************)
(* ImapSyncService.syncFolders.                                            *)
(***************************************************************************)
\* detectSpecialUse: the server-declared attribute, lower-cased and with its
\* backslash removed, otherwise the name heuristics on the path.
DetectSpecialUse(entry) ==
    IF entry.specialUse # Null
    THEN CASE entry.specialUse = "\\Trash" -> "trash"
           [] entry.specialUse = "\\Sent" -> "sent"
           [] entry.specialUse = "\\Drafts" -> "drafts"
           [] entry.specialUse = "\\Junk" -> "junk"
           [] entry.specialUse = "\\Archive" -> "archive"
           [] entry.specialUse = "\\All" -> "all"
           [] entry.specialUse = "\\Flagged" -> "flagged"
           [] entry.specialUse = "\\Inbox" -> "inbox"
    ELSE CASE entry.path = "INBOX" -> "inbox"
           [] entry.path = "Trash" -> "trash"
           [] OTHER -> Null

\* client.list(): one entry per mailbox of the account.
ListEntry(a, p) == [path |-> p, specialUse |-> server[a][p].specialUse]

ListMailboxes(a) ==
    LET present == SelectSeq(PathSeq, LAMBDA p : p \in DOMAIN server[a])
    IN [i \in 1 .. Len(present) |-> ListEntry(a, present[i])]

\* folderData: the row syncFolders builds for a mailbox.
NewFolder(id, a, entry, stamp) ==
    [id |-> id, accountId |-> a, name |-> entry.path, path |-> entry.path,
     delimiter |-> "/", parentPath |-> Null,
     specialUse |-> DetectSpecialUse(entry),
     totalMessages |-> 0, unreadMessages |-> 0,
     uidValidity |-> NullNumber, uidNext |-> NullNumber, highestModSeq |-> Null,
     isSubscribed |-> TRUE, isSelectable |-> TRUE, hasChildren |-> FALSE,
     lastSyncAt |-> stamp]

\* The update of an existing folder: the listing's attributes and lastSyncAt.
UpdateListedFolder(f, entry, stamp) ==
    [f EXCEPT !.name = entry.path, !.parentPath = Null,
              !.specialUse = DetectSpecialUse(entry),
              !.isSubscribed = TRUE, !.isSelectable = TRUE,
              !.hasChildren = FALSE, !.lastSyncAt = stamp]

\* A slip: nothing is ever found to delete.
DeletedPathsNone(existingPaths, seenPaths) == {}

\* A slip: the filter's test is inverted.
DeletedPathsSeen(existingPaths, seenPaths) == existingPaths \cap seenPaths

\* The local paths the server no longer lists.
DeletedPaths(existingPaths, seenPaths) == existingPaths \ seenPaths

NewHist == [dirty |-> FALSE, preFolders |-> folders, preMessages |-> messages,
            preBodies |-> messageBodies, preCache |-> NoEntry, at |-> now,
            after |-> lastCall]

StartSyncFolders(t, a) ==
    /\ tasks[t].pc = "idle"
    /\ tasks' = [tasks EXCEPT ![t] = [IdleTask EXCEPT !.op = "syncFolders",
                                      !.acct = a, !.pc = "getConnection"]]
    /\ hist' = [hist EXCEPT ![t] = NewHist]
    /\ UNCHANGED <<now, autoVars, wsVars, pushed, lastCall, poolVars, dbVars, srvVars>>

\* client.list() returns the mailboxes; `now` is taken.
SfsList(t) ==
    /\ tasks[t].pc = "sfs_list"
    /\ Usable(tasks[t].client)
    /\ tasks' = [tasks EXCEPT ![t].listed = ListMailboxes(tasks[t].acct),
                              ![t].todo = ListMailboxes(tasks[t].acct),
                              ![t].stamp = now,
                              ![t].pc = "sfs_existing"]
    /\ UNCHANGED <<now, autoVars, wsVars, histVars, poolVars, dbVars, srvVars>>

\* client.list() throws.
SfsListFail(t) ==
    /\ tasks[t].pc = "sfs_list"
    /\ tasks' = [tasks EXCEPT ![t] = Fail(@, "list failed")]
    /\ UNCHANGED <<now, autoVars, wsVars, histVars, poolVars, dbVars, srvVars>>

\* The account's local folders are read.
SfsExisting(t) ==
    /\ tasks[t].pc = "sfs_existing"
    /\ tasks' = [tasks EXCEPT ![t].existingPaths =
                                  {f.path : f \in {g \in folders :
                                                     g.accountId = tasks[t].acct}},
                              ![t].seenPaths = {},
                              ![t].pc = "sfs_loop"]
    /\ UNCHANGED <<now, autoVars, wsVars, histVars, poolVars, dbVars, srvVars>>

\* One turn of the loop: the mailbox's row is updated or inserted.
SfsMailbox(t) ==
    /\ tasks[t].pc = "sfs_loop"
    /\ tasks[t].todo # <<>>
    /\ LET a == tasks[t].acct
           entry == Head(tasks[t].todo)
           row == NewFolder(nextId, a, entry, tasks[t].stamp)
           next == [tasks[t] EXCEPT !.todo = Tail(@),
                                    !.seenPaths = @ \cup {entry.path}]
       IN IF entry.path \in tasks[t].existingPaths
          THEN /\ folders' = {IF f.accountId = a /\ f.path = entry.path
                              THEN UpdateListedFolder(f, entry, tasks[t].stamp)
                              ELSE f : f \in folders}
               /\ tasks' = [tasks EXCEPT ![t] = next]
               /\ UNCHANGED nextId
          ELSE IF FolderInsertAllowed(folders, row) /\ accountsDb[a] # NoRow
          THEN /\ nextId <= MaxRows
               /\ folders' = folders \cup {row}
               /\ nextId' = nextId + 1
               /\ tasks' = [tasks EXCEPT ![t] = next]
          ELSE /\ tasks' = [tasks EXCEPT ![t] = Fail(@, "constraint failed")]
               /\ UNCHANGED <<folders, nextId>>
    /\ UNCHANGED <<now, autoVars, wsVars, histVars, poolVars, accountsDb, messages, messageBodies, attachments, srvVars>>

\* After the loop: the folders the server no longer lists are deleted, and
\* their messages with them.
SfsDelete(t) ==
    /\ tasks[t].pc = "sfs_loop"
    /\ tasks[t].todo = <<>>
    /\ LET gone == DeletedPaths(tasks[t].existingPaths, tasks[t].seenPaths)
           kept == {f \in folders :
                      ~(f.accountId = tasks[t].acct /\ f.path \in gone)}
       IN /\ folders' = kept
          /\ messages' = CascadeMessages(messages, kept)
          /\ messageBodies' = CascadeBodies(messageBodies, messages')
          /\ attachments' = CascadeAttachments(attachments, messages')
    /\ tasks' = [tasks EXCEPT ![t].pc = "done"]
    /\ UNCHANGED <<now, autoVars, wsVars, histVars, poolVars, accountsDb, nextId, srvVars>>

SyncFoldersSteps(t) ==
    \/ SfsList(t)
    \/ SfsListFail(t)
    \/ SfsExisting(t)
    \/ SfsMailbox(t)
    \/ SfsDelete(t)

(***************************************************************************)
(* ImapSyncService.syncFolder.                                             *)
(***************************************************************************)
\* mailboxOpen's answer: the MailboxObject of the path.
MailboxObject(a, p) ==
    [uidValidity |-> server[a][p].uidValidity,
     uidNext |-> server[a][p].uidNext,
     exists |-> Cardinality(DOMAIN server[a][p].msgs)]

\* A slip in the comparison: only a smaller UIDVALIDITY counts as a change.
UidValidityChangedIfSmaller(folder, mailbox) ==
    /\ folder.uidValidity # NullNumber
    /\ folder.uidValidity # 0
    /\ folder.uidValidity > mailbox.uidValidity

\* folder.uidValidity && folder.uidValidity !== Number(mailbox.uidValidity)
UidValidityChanged(folder, mailbox) ==
    /\ folder.uidValidity # NullNumber
    /\ folder.uidValidity # 0
    /\ folder.uidValidity # mailbox.uidValidity

\* x ? Number(x) : null
NumberOrNull(x) == IF x = NullNumber \/ x = 0 THEN NullNumber ELSE x

\* The folder row after the metadata update.
WithMailboxState(f, mailbox, stamp) ==
    [f EXCEPT !.uidValidity = NumberOrNull(mailbox.uidValidity),
              !.uidNext = NumberOrNull(mailbox.uidNext),
              !.highestModSeq = Null,
              !.totalMessages = mailbox.exists,
              !.lastSyncAt = stamp]

\* The rows left once the messages of a folder are deleted.
WithoutFolderMessages(msgs, folderId) == {m \in msgs : m.folderId # folderId}

\* A slip in the range: the last message is left out.
FetchAllButLast(a, selected) ==
    IF selected \in DOMAIN server[a]
    THEN LET mb == server[a][selected]
             us == Ascending(DOMAIN mb.msgs)
         IN [i \in 1 .. Len(us) - 1 |->
               [uid |-> us[i], flags |-> mb.msgs[us[i]],
                bodyStructure |-> StructureOf(mb, us[i])]]
    ELSE <<>>

\* client.fetch('1:*', ..., {uid: true}) on the mailbox the client has
\* selected: every message, in ascending UID order.
FetchAll(a, selected) ==
    IF selected \in DOMAIN server[a]
    THEN LET mb == server[a][selected]
             us == Ascending(DOMAIN mb.msgs)
         IN [i \in 1 .. Len(us) |->
               [uid |-> us[i], flags |-> mb.msgs[us[i]],
                bodyStructure |-> StructureOf(mb, us[i])]]
    ELSE <<>>

\* Where syncFolder goes on with what is left of fetchedMessages.
AfterMessage(rest) == IF rest = <<>> THEN "sf_status" ELSE "sf_loop"

\* The node of a tree at a position, a position being the child numbers on
\* the way down from the root (<<>> for the root); NoNode where there is none.
NoNode == [none |-> TRUE]

RECURSIVE NodeAt(_, _)
NodeAt(node, pos) ==
    IF pos = <<>> THEN node
    ELSE IF Head(pos) \in DOMAIN node.childNodes
         THEN NodeAt(node.childNodes[Head(pos)], Tail(pos))
         ELSE NoNode

\* The node of a message that a part identifier addresses on the server
\* (RFC 3501, BODY[<section>]): the parts of a multipart message are numbered
\* 1, 2, ... and the parts of a multipart part n are n.1, n.2, ...; a message
\* that is not multipart has the single part 1.
ImapPart(structure, partId) ==
    IF structure.childNodes = <<>>
    THEN IF partId = <<1>> THEN structure ELSE NoNode
    ELSE IF partId = <<>> THEN NoNode ELSE NodeAt(structure, partId)

\* findAttachments: traverse(structure, '1') walks the tree depth-first; a
\* node with disposition attachment or inline is pushed with the partId it
\* was visited under, and child number index + 1 of a node is visited under
\* `${partId}.${index + 1}`.  A partId is held as the sequence of its numbers
\* (<<1, 2>> for '1.2').
RECURSIVE Traverse(_, _)
RECURSIVE TraverseChildren(_, _, _)
TraverseChildren(nodes, partId, index) ==
    IF index > Len(nodes) THEN <<>>
    ELSE Traverse(nodes[index], partId \o <<index>>)
         \o TraverseChildren(nodes, partId, index + 1)

Traverse(node, partId) ==
    (IF node.disposition \in {"attachment", "inline"}
     THEN <<[partId |-> partId, disposition |-> node.disposition]>>
     ELSE <<>>)
    \o TraverseChildren(node.childNodes, partId, 1)

FindAttachments(structure) == Traverse(structure, <<1>>)

\* The row insertMessage builds for an attachment; its uuid is a value no
\* other row has.
NewAttachment(messageId, att) ==
    [id |-> <<messageId, att.partId>>, messageId |-> messageId,
     partId |-> att.partId, disposition |-> att.disposition]

\* attachments.message_id references messages.id
AttachmentInsertAllowed(msgs, row) == \E m \in msgs : m.id = row.messageId

\* The row insertMessage builds for a fetched message.
NewMessage(id, a, folderId, msg) ==
    [id |-> id, accountId |-> a, folderId |-> folderId, uid |-> msg.uid,
     flags |-> msg.flags]

\* client.status(path, {unseen: true}).unseen || 0
Unseen(a, p) ==
    IF p \in DOMAIN server[a]
    THEN Cardinality({u \in DOMAIN server[a][p].msgs :
                        "\\Seen" \notin Range(server[a][p].msgs[u])})
    ELSE 0

StartSyncFolder(t, a, p) ==
    /\ tasks[t].pc = "idle"
    /\ tasks' = [tasks EXCEPT ![t] = [IdleTask EXCEPT !.op = "syncFolder",
                                      !.acct = a, !.path = p,
                                      !.pc = "getConnection"]]
    /\ hist' = [hist EXCEPT ![t] = NewHist]
    /\ UNCHANGED <<now, autoVars, wsVars, pushed, lastCall, poolVars, dbVars, srvVars>>

\* The folder row is looked up by account and path.
SfFindFolder(t) ==
    /\ tasks[t].pc = "sf_findFolder"
    /\ LET rows == FolderOf(tasks[t].acct, tasks[t].path)
       IN IF rows = {}
          THEN tasks' = [tasks EXCEPT ![t] = Fail(@, "Folder not found")]
          ELSE tasks' = [tasks EXCEPT ![t].folder = CHOOSE f \in rows : TRUE,
                                      ![t].pc = "sf_open"]
    /\ UNCHANGED <<now, autoVars, wsVars, histVars, poolVars, dbVars, srvVars>>

\* client.mailboxOpen(folderPath): the mailbox is selected on the session.
SfOpen(t) ==
    /\ tasks[t].pc = "sf_open"
    /\ Usable(tasks[t].client)
    /\ tasks[t].path \in DOMAIN server[tasks[t].acct]
    /\ LET mailbox == MailboxObject(tasks[t].acct, tasks[t].path)
           changed == UidValidityChanged(tasks[t].folder, mailbox)
       IN tasks' = [tasks EXCEPT ![t].mailbox = mailbox,
                                 ![t].uidValidityChanged = changed,
                                 ![t].pc = IF changed THEN "sf_invalidate"
                                           ELSE "sf_updateFolder"]
    /\ clients' = [clients EXCEPT ![tasks[t].client].selected = tasks[t].path]
    /\ UNCHANGED <<now, autoVars, wsVars, emitted, histVars, connections, dbVars, srvVars>>

\* client.mailboxOpen throws: syncFolder throws.
SfOpenFail(t) ==
    /\ tasks[t].pc = "sf_open"
    /\ tasks' = [tasks EXCEPT ![t] = Fail(@, "mailboxOpen failed")]
    /\ UNCHANGED <<now, autoVars, wsVars, histVars, poolVars, dbVars, srvVars>>

\* UIDVALIDITY changed: every message of the folder is deleted.
SfInvalidate(t) ==
    /\ tasks[t].pc = "sf_invalidate"
    /\ messages' = WithoutFolderMessages(messages, tasks[t].folder.id)
    /\ messageBodies' = CascadeBodies(messageBodies, messages')
    /\ attachments' = CascadeAttachments(attachments, messages')
    /\ tasks' = [tasks EXCEPT ![t].pc = "sf_updateFolder"]
    /\ UNCHANGED <<now, autoVars, wsVars, histVars, poolVars, accountsDb, folders, nextId, srvVars>>

\* The folder row takes the mailbox's uidValidity, uidNext and message count.
SfUpdateFolder(t) ==
    /\ tasks[t].pc = "sf_updateFolder"
    /\ folders' = {IF f.id = tasks[t].folder.id
                   THEN WithMailboxState(f, tasks[t].mailbox, now)
                   ELSE f : f \in folders}
    /\ tasks' = [tasks EXCEPT ![t].pc = "sf_existing"]
    /\ UNCHANGED <<now, autoVars, wsVars, histVars, poolVars, accountsDb, messages, messageBodies, attachments, nextId, srvVars>>

\* existingUids: the folder's local UIDs and their flags, read once.
SfExisting(t) ==
    /\ tasks[t].pc = "sf_existing"
    /\ LET rows == MessagesIn(tasks[t].folder.id)
       IN tasks' = [tasks EXCEPT
            ![t].existingUids = [u \in {m.uid : m \in rows} |->
                                   (CHOOSE m \in rows : m.uid = u).flags],
            ![t].pc = IF tasks[t].mailbox.exists > 0 THEN "sf_fetch"
                      ELSE "sf_status"]
    /\ UNCHANGED <<now, autoVars, wsVars, histVars, poolVars, dbVars, srvVars>>

\* The fetch runs to its end.
SfFetch(t) ==
    /\ tasks[t].pc = "sf_fetch"
    /\ Usable(tasks[t].client)
    /\ tasks' = [tasks EXCEPT
            ![t].fetched = FetchAll(tasks[t].acct,
                                    clients[tasks[t].client].selected),
            ![t].pc = AfterMessage(FetchAll(tasks[t].acct,
                                            clients[tasks[t].client].selected))]
    /\ UNCHANGED <<now, autoVars, wsVars, histVars, poolVars, dbVars, srvVars>>

\* The fetch throws after k messages: the error is logged, what was fetched
\* is processed.
SfFetchFail(t, k) ==
    /\ tasks[t].pc = "sf_fetch"
    /\ LET all == IF Usable(tasks[t].client)
                  THEN FetchAll(tasks[t].acct, clients[tasks[t].client].selected)
                  ELSE <<>>
       IN /\ k <= Len(all)
          /\ tasks' = [tasks EXCEPT ![t].fetched = SubSeq(all, 1, k),
                                    ![t].fetchError = TRUE,
                                    ![t].pc = AfterMessage(SubSeq(all, 1, k))]
    /\ UNCHANGED <<now, autoVars, wsVars, histVars, poolVars, dbVars, srvVars>>

\* What Map.get gives for a key the map does not hold.
Undefined == <<"undefined">>

\* The lookup made in the table as it is now instead of in existingUids.
ExistingFlagsLive(t, uid) ==
    LET rows == {m \in MessagesIn(tasks[t].folder.id) : m.uid = uid}
    IN IF rows = {} THEN Undefined ELSE (CHOOSE m \in rows : TRUE).flags

\* existingUids.get(msg.uid)
ExistingFlags(t, uid) ==
    IF uid \in DOMAIN tasks[t].existingUids THEN tasks[t].existingUids[uid]
    ELSE Undefined

\* One turn of the loop over the fetched messages: a UID not in existingUids
\* is inserted, a known one has its flags rewritten when they differ.
SfMessage(t) ==
    /\ tasks[t].pc = "sf_loop"
    /\ tasks[t].fetched # <<>>
    /\ LET msg == Head(tasks[t].fetched)
           fid == tasks[t].folder.id
           row == NewMessage(nextId, tasks[t].acct, fid, msg)
           existingFlags == ExistingFlags(t, msg.uid)
       IN IF existingFlags = Undefined
          THEN IF MessageInsertAllowed(messages, row)
               THEN /\ nextId <= MaxRows
                    /\ messages' = messages \cup {row}
                    /\ nextId' = nextId + 1
                    /\ IF FindAttachments(msg.bodyStructure) = <<>>
                       THEN tasks' = [tasks EXCEPT
                               ![t].fetched = Tail(@),
                               ![t].rowsAdded = @ + 1,
                               ![t].pc = AfterMessage(Tail(tasks[t].fetched)),
                               ![t].newMessages = @ + 1]
                       ELSE tasks' = [tasks EXCEPT
                               ![t].fetched = Tail(@),
                               ![t].rowsAdded = @ + 1,
                               ![t].attTodo = FindAttachments(msg.bodyStructure),
                               ![t].insertedId = nextId,
                               ![t].pc = "im_attachment"]
               ELSE /\ tasks' = [tasks EXCEPT ![t].fetched = Tail(@),
                                              ![t].pc = AfterMessage(Tail(tasks[t].fetched)),
                                              ![t].insertErrors = @ + 1]
                    /\ UNCHANGED <<messages, messageBodies, attachments, nextId>>
          ELSE IF existingFlags # msg.flags
               THEN /\ messages' = {IF m.folderId = fid /\ m.uid = msg.uid
                                    THEN [m EXCEPT !.flags = msg.flags]
                                    ELSE m : m \in messages}
                    /\ tasks' = [tasks EXCEPT ![t].fetched = Tail(@),
                                              ![t].pc = AfterMessage(Tail(tasks[t].fetched)),
                                              ![t].updatedMessages = @ + 1]
                    /\ UNCHANGED nextId
               ELSE /\ tasks' = [tasks EXCEPT ![t].fetched = Tail(@),
                                              ![t].pc = AfterMessage(Tail(tasks[t].fetched))]
                    /\ UNCHANGED <<messages, messageBodies, attachments, nextId>>
    /\ UNCHANGED <<now, autoVars, wsVars, histVars, poolVars, accountsDb, folders, messageBodies, attachments, srvVars>>

\* insertMessage, after the message row: one attachment row is inserted; after
\* the last one insertMessage returns and newMessages is raised.  An insert
\* the database refuses throws: syncFolder logs it and goes on with the next
\* message.
ImAttachment(t) ==
    /\ tasks[t].pc = "im_attachment"
    /\ LET row == NewAttachment(tasks[t].insertedId, Head(tasks[t].attTodo))
           rest == Tail(tasks[t].attTodo)
       IN IF AttachmentInsertAllowed(messages, row)
          THEN /\ attachments' = attachments \cup {row}
               /\ tasks' = [tasks EXCEPT
                     ![t].attTodo = rest,
                     ![t].newMessages = IF rest = <<>> THEN @ + 1 ELSE @,
                     ![t].pc = IF rest = <<>> THEN AfterMessage(tasks[t].fetched)
                               ELSE "im_attachment"]
          ELSE /\ tasks' = [tasks EXCEPT
                     ![t].attTodo = <<>>,
                     ![t].insertErrors = @ + 1,
                     ![t].pc = AfterMessage(tasks[t].fetched)]
               /\ UNCHANGED attachments
    /\ UNCHANGED <<now, autoVars, wsVars, histVars, poolVars, accountsDb, folders, messages,
                   messageBodies, nextId, srvVars>>

\* The insert of an attachment row throws: insertMessage throws with the
\* message row written, syncFolder logs it and goes on with the next message.
ImAttachmentFail(t) ==
    /\ tasks[t].pc = "im_attachment"
    /\ tasks' = [tasks EXCEPT ![t].attTodo = <<>>,
                              ![t].insertErrors = @ + 1,
                              ![t].pc = AfterMessage(tasks[t].fetched)]
    /\ UNCHANGED <<now, autoVars, wsVars, histVars, poolVars, dbVars, srvVars>>

\* The steps of insertMessage after its first insert.
InsertMessageSteps(t) ==
    \/ ImAttachment(t)
    \/ ImAttachmentFail(t)

\* getUnreadCount: the folder's unseen count.
SfStatus(t) ==
    /\ tasks[t].pc = "sf_status"
    /\ Usable(tasks[t].client)
    /\ tasks[t].path \in DOMAIN server[tasks[t].acct]
    /\ tasks' = [tasks EXCEPT ![t].unreadCount = Unseen(tasks[t].acct, tasks[t].path),
                              ![t].pc = "sf_unread"]
    /\ UNCHANGED <<now, autoVars, wsVars, histVars, poolVars, dbVars, srvVars>>

\* getUnreadCount: client.status throws, the count is 0.
SfStatusFail(t) ==
    /\ tasks[t].pc = "sf_status"
    /\ tasks' = [tasks EXCEPT ![t].unreadCount = 0, ![t].pc = "sf_unread"]
    /\ UNCHANGED <<now, autoVars, wsVars, histVars, poolVars, dbVars, srvVars>>

\* The unread count is stored and the counts returned.
SfUnread(t) ==
    /\ tasks[t].pc = "sf_unread"
    /\ folders' = {IF f.id = tasks[t].folder.id
                   THEN [f EXCEPT !.unreadMessages = tasks[t].unreadCount]
                   ELSE f : f \in folders}
    /\ tasks' = [tasks EXCEPT ![t].pc = "done"]
    /\ UNCHANGED <<now, autoVars, wsVars, histVars, poolVars, accountsDb, messages, messageBodies, attachments, nextId, srvVars>>

SyncFolderSteps(t) ==
    \/ SfFindFolder(t)
    \/ SfOpen(t)
    \/ SfOpenFail(t)
    \/ SfInvalidate(t)
    \/ SfUpdateFolder(t)
    \/ SfExisting(t)
    \/ SfFetch(t)
    \/ \E k \in 0 .. Cardinality(Uids) : SfFetchFail(t, k)
    \/ SfMessage(t)
    \/ SfStatus(t)
    \/ SfStatusFail(t)
    \/ SfUnread(t)

(***************************************************************************)
(* EmailService.updateFlags.                                               *)
(***************************************************************************)
\* A slip in the filter: the flags to remove are the ones kept.
UpdatedFlagsKeepRemoved(currentFlags, addFlags, removeFlags) ==
    Filter(Dedupe(currentFlags \o addFlags), Flags \ Range(removeFlags))

\* A slip in the merge: the added flags are appended without the Set.
UpdatedFlagsNoSet(currentFlags, addFlags, removeFlags) ==
    Filter(currentFlags \o addFlags, Range(removeFlags))

\* [...new Set([...currentFlags, ...addFlags])], then the filter that drops
\* the flags of removeFlags.
UpdatedFlags(currentFlags, addFlags, removeFlags) ==
    Filter(Dedupe(currentFlags \o addFlags), Range(removeFlags))

\* findMany: the account's rows among emailIds, in the order of the table.
MessageRows(a, emailIds) ==
    LET rows == {m \in messages : m.accountId = a /\ m.id \in emailIds}
        ids == Ascending({m.id : m \in rows})
    IN [i \in 1 .. Len(ids) |-> CHOOSE m \in rows : m.id = ids[i]]

\* byFolder: the rows grouped by folderId, a folder entering the Map when its
\* first row is met.
RECURSIVE ByFolder(_)
ByFolder(rows) ==
    IF rows = <<>> THEN <<>>
    ELSE LET fid == rows[1].folderId
         IN <<[folderId |-> fid,
               rows |-> SelectSeq(rows, LAMBDA m : m.folderId = fid)]>>
            \o ByFolder(SelectSeq(rows, LAMBDA m : m.folderId # fid))

\* folderMessages.map(m => m.uid)
UidList(rows) == [i \in DOMAIN rows |-> rows[i].uid]

\* A method called by deleteMessages hands control back when it returns:
\* after updateFlags the expunge follows, after moveMessages nothing.
Return(task) ==
    IF task.pc = "done" /\ task.outer # ""
    THEN [task EXCEPT !.pc = IF task.op = "updateFlags" THEN "dm_rows" ELSE "done",
                      !.op = task.outer, !.outer = ""]
    ELSE task

\* Where the loop over byFolder goes on.
AfterFolder(byFolder) == IF byFolder = <<>> THEN "done" ELSE "uf_findFolder"

\* Where the method goes on once the mailbox is open, and once the flags are
\* added: a command is sent only for a non-empty list.
AfterAdd(task) == IF task.removeFlags # <<>> THEN "uf_remove" ELSE "uf_local"

AfterOpen(task) == IF task.addFlags # <<>> THEN "uf_add" ELSE AfterAdd(task)

\* UID STORE +FLAGS and -FLAGS on the server's mailbox.
StoreAdd(mb, uids, fl) ==
    [mb EXCEPT !.msgs = [u \in DOMAIN @ |->
                           IF u \in uids THEN Dedupe(@[u] \o fl) ELSE @[u]]]

StoreRemove(mb, uids, fl) ==
    [mb EXCEPT !.msgs = [u \in DOMAIN @ |->
                           IF u \in uids THEN Filter(@[u], Range(fl)) ELSE @[u]]]

Command(t, name) ==
    [task |-> t, command |-> name, path |-> clients[tasks[t].client].selected,
     uids |-> UidList(tasks[t].todo),
     flags |-> IF name = "messageFlagsAdd" THEN tasks[t].addFlags
               ELSE tasks[t].removeFlags]

StartUpdateFlags(t, u, a, ids, add, remove) ==
    /\ tasks[t].pc = "idle"
    /\ tasks' = [tasks EXCEPT ![t] = [IdleTask EXCEPT !.op = "updateFlags",
                                      !.user = u, !.acct = a, !.emailIds = ids,
                                      !.addFlags = add, !.removeFlags = remove,
                                      !.pc = "uf_account"]]
    /\ hist' = [hist EXCEPT ![t] = NewHist]
    /\ UNCHANGED <<now, autoVars, wsVars, pushed, lastCall, poolVars, dbVars, srvVars>>

\* The account must be the user's.
UfAccount(t) ==
    /\ tasks[t].pc = "uf_account"
    /\ tasks' = [tasks EXCEPT ![t] =
                   IF /\ accountsDb[tasks[t].acct] # NoRow
                      /\ accountsDb[tasks[t].acct].userId = tasks[t].user
                   THEN [@ EXCEPT !.pc = "getConnection"]
                   ELSE Fail(@, "Account not found")]
    /\ UNCHANGED <<now, autoVars, wsVars, histVars, poolVars, dbVars, srvVars>>

\* The targeted rows are read and grouped by folder.
UfQuery(t) ==
    /\ tasks[t].pc = "uf_query"
    /\ LET rows == MessageRows(tasks[t].acct, tasks[t].emailIds)
       IN tasks' = [tasks EXCEPT ![t] =
                      Return([@ EXCEPT !.messageRows = rows,
                                       !.byFolder = ByFolder(rows),
                                       !.pc = AfterFolder(ByFolder(rows))])]
    /\ UNCHANGED <<now, autoVars, wsVars, histVars, poolVars, dbVars, srvVars>>

\* The folder of the group is looked up; a group without folder is skipped.
UfFindFolder(t) ==
    /\ tasks[t].pc = "uf_findFolder"
    /\ LET group == Head(tasks[t].byFolder)
           rows == {f \in folders : f.id = group.folderId}
       IN IF rows = {}
          THEN tasks' = [tasks EXCEPT ![t] =
                          Return([@ EXCEPT !.byFolder = Tail(@),
                                           !.pc = AfterFolder(Tail(tasks[t].byFolder))])]
          ELSE tasks' = [tasks EXCEPT ![t].folder = CHOOSE f \in rows : TRUE,
                                      ![t].todo = group.rows,
                                      ![t].pc = "uf_open"]
    /\ UNCHANGED <<now, autoVars, wsVars, histVars, poolVars, dbVars, srvVars>>

\* client.mailboxOpen(folder.path)
UfOpen(t) ==
    /\ tasks[t].pc = "uf_open"
    /\ Usable(tasks[t].client)
    /\ tasks[t].folder.path \in DOMAIN server[tasks[t].acct]
    /\ clients' = [clients EXCEPT ![tasks[t].client].selected = tasks[t].folder.path]
    /\ tasks' = [tasks EXCEPT ![t].pc = AfterOpen(tasks[t])]
    /\ UNCHANGED <<now, autoVars, wsVars, emitted, histVars, connections, dbVars, srvVars>>

\* client.messageFlagsAdd(uidRange, addFlags, {uid: true})
UfAdd(t) ==
    /\ tasks[t].pc = "uf_add"
    /\ Usable(tasks[t].client)
    /\ LET sel == clients[tasks[t].client].selected
       IN /\ sel \in DOMAIN server[tasks[t].acct]
          /\ server' = [server EXCEPT ![tasks[t].acct][sel] =
                          StoreAdd(@, Range(UidList(tasks[t].todo)),
                                   tasks[t].addFlags)]
    /\ cmdLog' = Append(cmdLog, Command(t, "messageFlagsAdd"))
    /\ tasks' = [tasks EXCEPT ![t].pc = AfterAdd(tasks[t])]
    /\ UNCHANGED <<now, autoVars, wsVars, histVars, poolVars, dbVars>>

\* client.messageFlagsRemove(uidRange, removeFlags, {uid: true})
UfRemove(t) ==
    /\ tasks[t].pc = "uf_remove"
    /\ Usable(tasks[t].client)
    /\ LET sel == clients[tasks[t].client].selected
       IN /\ sel \in DOMAIN server[tasks[t].acct]
          /\ server' = [server EXCEPT ![tasks[t].acct][sel] =
                          StoreRemove(@, Range(UidList(tasks[t].todo)),
                                      tasks[t].removeFlags)]
    /\ cmdLog' = Append(cmdLog, Command(t, "messageFlagsRemove"))
    /\ tasks' = [tasks EXCEPT ![t].pc = "uf_local"]
    /\ UNCHANGED <<now, autoVars, wsVars, histVars, poolVars, dbVars>>

\* An IMAP command of the method throws: updateFlags throws, what was done
\* stays done.
UfCommandFail(t) ==
    /\ tasks[t].pc \in {"uf_open", "uf_add", "uf_remove"}
    /\ tasks' = [tasks EXCEPT ![t] = Fail(@, "IMAP command failed")]
    /\ UNCHANGED <<now, autoVars, wsVars, histVars, poolVars, dbVars, srvVars>>

\* One turn of the loop over folderMessages: the row's flags are computed from
\* the flags read by the query, and written.
UfLocal(t) ==
    /\ tasks[t].pc = "uf_local"
    /\ LET msg == Head(tasks[t].todo)
           currentFlags == UpdatedFlags(msg.flags, tasks[t].addFlags,
                                        tasks[t].removeFlags)
           rest == Tail(tasks[t].todo)
       IN /\ messages' = {IF m.id = msg.id THEN [m EXCEPT !.flags = currentFlags]
                          ELSE m : m \in messages}
          /\ tasks' = [tasks EXCEPT ![t] = Return([@ EXCEPT
                !.todo = rest,
                !.byFolder = IF rest = <<>> THEN Tail(@) ELSE @,
                !.pc = IF rest = <<>> THEN AfterFolder(Tail(tasks[t].byFolder))
                       ELSE "uf_local"])]
    /\ UNCHANGED <<now, autoVars, wsVars, histVars, poolVars, accountsDb, folders, messageBodies, attachments, nextId, srvVars>>

\* updateFlags when no IMAP command fails.
UpdateFlagsOkSteps(t) ==
    \/ UfAccount(t)
    \/ UfQuery(t)
    \/ UfFindFolder(t)
    \/ UfOpen(t)
    \/ UfAdd(t)
    \/ UfRemove(t)
    \/ UfLocal(t)

UpdateFlagsSteps(t) ==
    \/ UpdateFlagsOkSteps(t)
    \/ UfCommandFail(t)

(***************************************************************************)
(* EmailService.moveMessages.                                              *)
(***************************************************************************)
\* UID MOVE on the server: the messages leave the selected mailbox and enter
\* the target under the target's next UIDs, in ascending order of their UIDs.
StoreMove(boxes, src, dst, uids) ==
    LET moved == Ascending(uids \cap DOMAIN boxes[src].msgs)
        left == [boxes EXCEPT ![src].msgs =
                    [u \in DOMAIN @ \ uids |-> @[u]]]
        first == left[dst].uidNext
        new == [i \in 1 .. Len(moved) |-> first + i - 1]
    IN [left EXCEPT ![dst] =
          [@ EXCEPT !.uidNext = first + Len(moved),
                    !.msgs = [u \in DOMAIN left[dst].msgs \cup Range(new) |->
                                IF u \in DOMAIN left[dst].msgs
                                THEN left[dst].msgs[u]
                                ELSE boxes[src].msgs[
                                        moved[CHOOSE i \in DOMAIN new : new[i] = u]]]]]

\* A slip in the delete: the rows are picked by UID, not by id.
WithoutRowsByUid(msgs, rows) ==
    {m \in msgs : m.uid \notin {rows[i].uid : i \in DOMAIN rows}}

\* db.delete(messages).where(inArray(messages.id, folderMessages.map(m => m.id)))
WithoutRows(msgs, rows) ==
    {m \in msgs : m.id \notin {rows[i].id : i \in DOMAIN rows}}

StartMoveMessages(t, u, a, ids, target) ==
    /\ tasks[t].pc = "idle"
    /\ tasks' = [tasks EXCEPT ![t] = [IdleTask EXCEPT !.op = "moveMessages",
                                      !.user = u, !.acct = a, !.emailIds = ids,
                                      !.targetFolderId = target,
                                      !.pc = "mv_account"]]
    /\ hist' = [hist EXCEPT ![t] = NewHist]
    /\ UNCHANGED <<now, autoVars, wsVars, pushed, lastCall, poolVars, dbVars, srvVars>>

\* The account must be the user's.
MvAccount(t) ==
    /\ tasks[t].pc = "mv_account"
    /\ tasks' = [tasks EXCEPT ![t] =
                   IF /\ accountsDb[tasks[t].acct] # NoRow
                      /\ accountsDb[tasks[t].acct].userId = tasks[t].user
                   THEN [@ EXCEPT !.pc = "mv_target"]
                   ELSE Fail(@, "Account not found")]
    /\ UNCHANGED <<now, autoVars, wsVars, histVars, poolVars, dbVars, srvVars>>

\* A slip in the lookup: the folder is not required to be the account's.
TargetFolderRowsAnyAccount(a, id) == {f \in folders : f.id = id}

\* folders.findFirst(id = targetFolderId, accountId = accountId)
TargetFolderRows(a, id) == {f \in folders : f.id = id /\ f.accountId = a}

\* The target folder must be a folder of the account.
MvTarget(t) ==
    /\ tasks[t].pc = "mv_target"
    /\ LET rows == TargetFolderRows(tasks[t].acct, tasks[t].targetFolderId)
       IN tasks' = [tasks EXCEPT ![t] =
                      IF rows = {} THEN Fail(@, "Target folder not found")
                      ELSE [@ EXCEPT !.targetFolder = CHOOSE f \in rows : TRUE,
                                     !.pc = "getConnection"]]
    /\ UNCHANGED <<now, autoVars, wsVars, histVars, poolVars, dbVars, srvVars>>

\* The targeted rows are read and grouped by source folder.
MvQuery(t) ==
    /\ tasks[t].pc = "mv_query"
    /\ LET rows == MessageRows(tasks[t].acct, tasks[t].emailIds)
       IN tasks' = [tasks EXCEPT ![t] =
                      Return([@ EXCEPT !.messageRows = rows,
                                       !.byFolder = ByFolder(rows),
                                       !.pc = IF rows = <<>> THEN "done"
                                              ELSE "mv_findFolder"])]
    /\ UNCHANGED <<now, autoVars, wsVars, histVars, poolVars, dbVars, srvVars>>

\* The source folder of the group is looked up; a group without folder is
\* skipped.
MvFindFolder(t) ==
    /\ tasks[t].pc = "mv_findFolder"
    /\ LET group == Head(tasks[t].byFolder)
           rows == {f \in folders : f.id = group.folderId}
           rest == Tail(tasks[t].byFolder)
       IN IF rows = {}
          THEN tasks' = [tasks EXCEPT ![t] =
                          Return([@ EXCEPT !.byFolder = rest,
                                           !.pc = IF rest = <<>> THEN "done"
                                                  ELSE "mv_findFolder"])]
          ELSE tasks' = [tasks EXCEPT ![t].folder = CHOOSE f \in rows : TRUE,
                                      ![t].todo = group.rows,
                                      ![t].pc = "mv_open"]
    /\ UNCHANGED <<now, autoVars, wsVars, histVars, poolVars, dbVars, srvVars>>

\* client.mailboxOpen(sourceFolder.path)
MvOpen(t) ==
    /\ tasks[t].pc = "mv_open"
    /\ Usable(tasks[t].client)
    /\ tasks[t].folder.path \in DOMAIN server[tasks[t].acct]
    /\ clients' = [clients EXCEPT ![tasks[t].client].selected = tasks[t].folder.path]
    /\ tasks' = [tasks EXCEPT ![t].pc = "mv_move"]
    /\ UNCHANGED <<now, autoVars, wsVars, emitted, histVars, connections, dbVars, srvVars>>

\* client.messageMove(uidRange, targetFolder.path, {uid: true})
MvMove(t) ==
    /\ tasks[t].pc = "mv_move"
    /\ Usable(tasks[t].client)
    /\ LET sel == clients[tasks[t].client].selected
           dst == tasks[t].targetFolder.path
       IN /\ sel \in DOMAIN server[tasks[t].acct]
          /\ dst \in DOMAIN server[tasks[t].acct]
          /\ server' = [server EXCEPT ![tasks[t].acct] =
                          StoreMove(@, sel, dst, Range(UidList(tasks[t].todo)))]
    /\ cmdLog' = Append(cmdLog, [Command(t, "messageMove") EXCEPT !.flags = <<>>])
    /\ tasks' = [tasks EXCEPT ![t].pc = "mv_local"]
    /\ UNCHANGED <<now, autoVars, wsVars, histVars, poolVars, dbVars>>

\* An IMAP command of the method throws: moveMessages throws, what was done
\* stays done.
MvCommandFail(t) ==
    /\ tasks[t].pc \in {"mv_open", "mv_move"}
    /\ tasks' = [tasks EXCEPT ![t] = Fail(@, "IMAP command failed")]
    /\ UNCHANGED <<now, autoVars, wsVars, histVars, poolVars, dbVars, srvVars>>

\* The rows of the group are deleted locally.
MvLocal(t) ==
    /\ tasks[t].pc = "mv_local"
    /\ LET rest == Tail(tasks[t].byFolder)
       IN /\ messages' = WithoutRows(messages, tasks[t].todo)
          /\ messageBodies' = CascadeBodies(messageBodies, messages')
          /\ attachments' = CascadeAttachments(attachments, messages')
          /\ tasks' = [tasks EXCEPT ![t] =
                         Return([@ EXCEPT !.todo = <<>>, !.byFolder = rest,
                                          !.pc = IF rest = <<>> THEN "done"
                                                 ELSE "mv_findFolder"])]
    /\ UNCHANGED <<now, autoVars, wsVars, histVars, poolVars, accountsDb, folders, nextId, srvVars>>

\* moveMessages when no IMAP command fails.
MoveMessagesOkSteps(t) ==
    \/ MvAccount(t)
    \/ MvTarget(t)
    \/ MvQuery(t)
    \/ MvFindFolder(t)
    \/ MvOpen(t)
    \/ MvMove(t)
    \/ MvLocal(t)

MoveMessagesSteps(t) ==
    \/ MoveMessagesOkSteps(t)
    \/ MvCommandFail(t)

(***************************************************************************)
(* EmailService.deleteMessages.                                            *)
(***************************************************************************)
\* [...new Set(messageRows.map(m => m.folderId))] over the rows whose id is in
\* emailIds, in the order of the table.
FolderIds(emailIds) ==
    LET rows == {m \in messages : m.id \in emailIds}
        ids == Ascending({m.id : m \in rows})
    IN Dedupe([i \in 1 .. Len(ids) |-> (CHOOSE m \in rows : m.id = ids[i]).folderId])

\* A lookup of the trash folder that finds none.
TrashFoldersNone(a) == {}

\* folders.findFirst(accountId, specialUse = 'trash')
TrashFolders(a) == {f \in folders : f.accountId = a /\ f.specialUse = "trash"}

\* messageDelete('1:*', {uid: true}) on the server's mailbox.
StoreDeleteAll(mb) == [mb EXCEPT !.msgs = <<>>]

StartDeleteMessages(t, u, a, ids, permanent) ==
    /\ tasks[t].pc = "idle"
    /\ tasks' = [tasks EXCEPT ![t] = [IdleTask EXCEPT !.op = "deleteMessages",
                                      !.user = u, !.acct = a, !.emailIds = ids,
                                      !.permanent = permanent,
                                      !.pc = "dm_account"]]
    /\ hist' = [hist EXCEPT ![t] = NewHist]
    /\ UNCHANGED <<now, autoVars, wsVars, pushed, lastCall, poolVars, dbVars, srvVars>>

\* The account must be the user's; then updateFlags is called with \Deleted
\* for a permanent delete, and the trash folder looked up otherwise.
DmAccount(t) ==
    /\ tasks[t].pc = "dm_account"
    /\ tasks' = [tasks EXCEPT ![t] =
          IF ~(/\ accountsDb[tasks[t].acct] # NoRow
               /\ accountsDb[tasks[t].acct].userId = tasks[t].user)
          THEN Fail(@, "Account not found")
          ELSE IF tasks[t].permanent
               THEN [@ EXCEPT !.outer = "deleteMessages", !.op = "updateFlags",
                              !.addFlags = <<"\\Deleted">>,
                              !.removeFlags = <<>>, !.pc = "uf_account"]
               ELSE [@ EXCEPT !.pc = "dm_trash"]]
    /\ UNCHANGED <<now, autoVars, wsVars, histVars, poolVars, dbVars, srvVars>>

\* With a trash folder moveMessages is called on it; without one,
\* deleteMessages calls itself with permanent = true.
DmTrash(t) ==
    /\ tasks[t].pc = "dm_trash"
    /\ LET rows == TrashFolders(tasks[t].acct)
       IN tasks' = [tasks EXCEPT ![t] =
             IF rows # {}
             THEN [@ EXCEPT !.outer = "deleteMessages", !.op = "moveMessages",
                            !.targetFolderId = (CHOOSE f \in rows : TRUE).id,
                            !.pc = "mv_account"]
             ELSE [@ EXCEPT !.permanent = TRUE, !.pc = "dm_account"]]
    /\ UNCHANGED <<now, autoVars, wsVars, histVars, poolVars, dbVars, srvVars>>

\* updateFlags has returned: the folders of the rows named by emailIds are
\* collected, and the session is asked for.
DmRows(t) ==
    /\ tasks[t].pc = "dm_rows"
    /\ tasks' = [tasks EXCEPT ![t].folderIds = FolderIds(tasks[t].emailIds),
                              ![t].pc = "getConnection"]
    /\ UNCHANGED <<now, autoVars, wsVars, histVars, poolVars, dbVars, srvVars>>

\* The loop over folderIds: the folder is looked up, one without row is
\* skipped; after the loop the rows are deleted.
DmFolder(t) ==
    /\ tasks[t].pc = "dm_folder"
    /\ IF tasks[t].folderIds = <<>>
       THEN tasks' = [tasks EXCEPT ![t].pc = "dm_local"]
       ELSE LET rows == {f \in folders : f.id = Head(tasks[t].folderIds)}
            IN IF rows = {}
               THEN tasks' = [tasks EXCEPT ![t].folderIds = Tail(@)]
               ELSE tasks' = [tasks EXCEPT ![t].folder = CHOOSE f \in rows : TRUE,
                                           ![t].folderIds = Tail(@),
                                           ![t].pc = "dm_open"]
    /\ UNCHANGED <<now, autoVars, wsVars, histVars, poolVars, dbVars, srvVars>>

\* client.mailboxOpen(folder.path)
DmOpen(t) ==
    /\ tasks[t].pc = "dm_open"
    /\ Usable(tasks[t].client)
    /\ tasks[t].folder.path \in DOMAIN server[tasks[t].acct]
    /\ clients' = [clients EXCEPT ![tasks[t].client].selected = tasks[t].folder.path]
    /\ tasks' = [tasks EXCEPT ![t].pc = "dm_expunge"]
    /\ UNCHANGED <<now, autoVars, wsVars, emitted, histVars, connections, dbVars, srvVars>>

\* client.messageDelete('1:*', {uid: true})
DmExpunge(t) ==
    /\ tasks[t].pc = "dm_expunge"
    /\ Usable(tasks[t].client)
    /\ LET sel == clients[tasks[t].client].selected
       IN /\ sel \in DOMAIN server[tasks[t].acct]
          /\ server' = [server EXCEPT ![tasks[t].acct][sel] = StoreDeleteAll(@)]
          /\ cmdLog' = Append(cmdLog,
                [task |-> t, command |-> "messageDelete", path |-> sel,
                 uids |-> Ascending(DOMAIN server[tasks[t].acct][sel].msgs),
                 flags |-> <<>>])
    /\ tasks' = [tasks EXCEPT ![t].pc = "dm_folder"]
    /\ UNCHANGED <<now, autoVars, wsVars, histVars, poolVars, dbVars>>

\* An IMAP command of the expunge loop throws: deleteMessages throws.
DmCommandFail(t) ==
    /\ tasks[t].pc \in {"dm_open", "dm_expunge"}
    /\ tasks' = [tasks EXCEPT ![t] = Fail(@, "IMAP command failed")]
    /\ UNCHANGED <<now, autoVars, wsVars, histVars, poolVars, dbVars, srvVars>>

\* db.delete(messages).where(inArray(messages.id, emailIds))
DmLocal(t) ==
    /\ tasks[t].pc = "dm_local"
    /\ messages' = {m \in messages : m.id \notin tasks[t].emailIds}
    /\ messageBodies' = CascadeBodies(messageBodies, messages')
    /\ attachments' = CascadeAttachments(attachments, messages')
    /\ tasks' = [tasks EXCEPT ![t].pc = "done"]
    /\ UNCHANGED <<now, autoVars, wsVars, histVars, poolVars, accountsDb, folders, nextId, srvVars>>

\* deleteMessages when no IMAP command fails; the steps of the updateFlags and
\* moveMessages it calls are theirs.
DeleteMessagesOkSteps(t) ==
    \/ DmAccount(t)
    \/ DmTrash(t)
    \/ DmRows(t)
    \/ DmFolder(t)
    \/ DmOpen(t)
    \/ DmExpunge(t)
    \/ DmLocal(t)

DeleteMessagesSteps(t) ==
    \/ DeleteMessagesOkSteps(t)
    \/ DmCommandFail(t)

(***************************************************************************)
(* EmailService.getEmail and ImapSyncService.fetchMessageBody.             *)
(***************************************************************************)
\* What client.download yields for a message: a text/plain or a text/html
\* content.
DownloadResults ==
    {[textBody |-> "text", htmlBody |-> Null],
     [textBody |-> Null, htmlBody |-> "html"]}

\* What the fetch of the body parts yields: a plain part, an HTML part, both,
\* or nothing.
BodyPartsResults ==
    DownloadResults \cup {[textBody |-> "text", htmlBody |-> "html"],
                          [textBody |-> Null, htmlBody |-> Null]}

\* fetchMessageBody without its last resort.
OrNothing(r) == r

\* fetchMessageBody's last resort.
OrUnable(r) ==
    IF r.textBody = Null /\ r.htmlBody = Null
    THEN [r EXCEPT !.textBody = "(Unable to load message content)"]
    ELSE r

\* getEmail that never finds a cached body.
CachedBodiesNone(id) == {}

\* The message_bodies rows of a message.
CachedBodies(id) == {b \in messageBodies : b.messageId = id}

\* message_bodies: message_id is unique and references messages.id.
BodyInsertAllowed(bodies, row) ==
    /\ \A b \in bodies : b.messageId # row.messageId
    /\ \E m \in messages : m.id = row.messageId

StartGetEmail(t, u, a, id) ==
    /\ tasks[t].pc = "idle"
    /\ tasks' = [tasks EXCEPT ![t] = [IdleTask EXCEPT !.op = "getEmail",
                                      !.user = u, !.acct = a, !.messageId = id,
                                      !.pc = "ge_account"]]
    /\ hist' = [hist EXCEPT ![t] = NewHist]
    /\ UNCHANGED <<now, autoVars, wsVars, pushed, lastCall, poolVars, dbVars, srvVars>>

\* The account must belong to the user.
GeAccount(t) ==
    /\ tasks[t].pc = "ge_account"
    /\ tasks' = [tasks EXCEPT ![t] =
                   IF /\ accountsDb[tasks[t].acct] # NoRow
                      /\ accountsDb[tasks[t].acct].userId = tasks[t].user
                   THEN [@ EXCEPT !.pc = "ge_message"]
                   ELSE Fail(@, "Account not found")]
    /\ UNCHANGED <<now, autoVars, wsVars, histVars, poolVars, dbVars, srvVars>>

\* The message row, by id and account.
GeMessage(t) ==
    /\ tasks[t].pc = "ge_message"
    /\ LET rows == {m \in messages : m.id = tasks[t].messageId
                                       /\ m.accountId = tasks[t].acct}
       IN tasks' = [tasks EXCEPT ![t] =
                      IF rows = {} THEN Fail(@, "Message not found")
                      ELSE [@ EXCEPT !.message = CHOOSE m \in rows : TRUE,
                                     !.pc = "ge_body"]]
    /\ UNCHANGED <<now, autoVars, wsVars, histVars, poolVars, dbVars, srvVars>>

\* The cached body, if there is one: getEmail returns it; otherwise
\* fetchMessageBody is called.
GeBody(t) ==
    /\ tasks[t].pc = "ge_body"
    /\ LET rows == CachedBodies(tasks[t].messageId)
       IN tasks' = [tasks EXCEPT ![t] =
                      IF rows = {} THEN [@ EXCEPT !.pc = "fmb_message"]
                      ELSE LET body == CHOOSE b \in rows : TRUE
                           IN [@ EXCEPT !.body = body,
                                        !.textBody = body.textBody,
                                        !.htmlBody = body.htmlBody,
                                        !.pc = "done"]]
    /\ UNCHANGED <<now, autoVars, wsVars, histVars, poolVars, dbVars, srvVars>>

\* fetchMessageBody: the message row, by id.
FmbMessage(t) ==
    /\ tasks[t].pc = "fmb_message"
    /\ LET rows == {m \in messages : m.id = tasks[t].messageId}
       IN tasks' = [tasks EXCEPT ![t] =
                      IF rows = {} \/ \A m \in rows : m.accountId # tasks[t].acct
                      THEN Fail(@, "Message not found")
                      ELSE [@ EXCEPT !.message = CHOOSE m \in rows : TRUE,
                                     !.pc = "fmb_folder"]]
    /\ UNCHANGED <<now, autoVars, wsVars, histVars, poolVars, dbVars, srvVars>>

\* fetchMessageBody: the message's folder row, then getConnection.
FmbFolder(t) ==
    /\ tasks[t].pc = "fmb_folder"
    /\ LET rows == {f \in folders : f.id = tasks[t].message.folderId}
       IN tasks' = [tasks EXCEPT ![t] =
                      IF rows = {} THEN Fail(@, "Folder not found")
                      ELSE [@ EXCEPT !.folder = CHOOSE f \in rows : TRUE,
                                     !.pc = "getConnection"]]
    /\ UNCHANGED <<now, autoVars, wsVars, histVars, poolVars, dbVars, srvVars>>

\* client.mailboxOpen(folder.path)
FmbOpen(t) ==
    /\ tasks[t].pc = "fmb_open"
    /\ Usable(tasks[t].client)
    /\ tasks[t].folder.path \in DOMAIN server[tasks[t].acct]
    /\ clients' = [clients EXCEPT ![tasks[t].client].selected = tasks[t].folder.path]
    /\ tasks' = [tasks EXCEPT ![t].pc = "fmb_download"]
    /\ UNCHANGED <<now, autoVars, wsVars, emitted, histVars, connections, dbVars, srvVars>>

\* client.mailboxOpen throws: fetchMessageBody throws.
FmbOpenFail(t) ==
    /\ tasks[t].pc = "fmb_open"
    /\ tasks' = [tasks EXCEPT ![t] = Fail(@, "Failed to open folder")]
    /\ UNCHANGED <<now, autoVars, wsVars, histVars, poolVars, dbVars, srvVars>>

\* client.download gives the message's content.
FmbDownload(t, r) ==
    /\ tasks[t].pc = "fmb_download"
    /\ Usable(tasks[t].client)
    /\ tasks' = [tasks EXCEPT ![t].textBody = r.textBody,
                              ![t].htmlBody = r.htmlBody,
                              ![t].pc = "ge_insert"]
    /\ UNCHANGED <<now, autoVars, wsVars, histVars, poolVars, dbVars, srvVars>>

\* client.download throws or gives no content: the body parts are fetched.
FmbDownloadFail(t) ==
    /\ tasks[t].pc = "fmb_download"
    /\ tasks' = [tasks EXCEPT ![t].pc = "fmb_parts"]
    /\ UNCHANGED <<now, autoVars, wsVars, histVars, poolVars, dbVars, srvVars>>

\* client.fetch of the body parts.
FmbParts(t, r) ==
    /\ tasks[t].pc = "fmb_parts"
    /\ Usable(tasks[t].client)
    /\ tasks' = [tasks EXCEPT ![t].textBody = OrUnable(r).textBody,
                              ![t].htmlBody = OrUnable(r).htmlBody,
                              ![t].pc = "ge_insert"]
    /\ UNCHANGED <<now, autoVars, wsVars, histVars, poolVars, dbVars, srvVars>>

\* client.fetch throws: the error is logged.
FmbPartsFail(t) ==
    /\ tasks[t].pc = "fmb_parts"
    /\ tasks' = [tasks EXCEPT ![t].textBody = "(Unable to load message content)",
                              ![t].pc = "ge_insert"]
    /\ UNCHANGED <<now, autoVars, wsVars, histVars, poolVars, dbVars, srvVars>>

\* getEmail caches the body and returns it.
GeInsert(t) ==
    /\ tasks[t].pc = "ge_insert"
    /\ LET row == [messageId |-> tasks[t].messageId,
                   textBody |-> tasks[t].textBody,
                   htmlBody |-> tasks[t].htmlBody]
       IN IF BodyInsertAllowed(messageBodies, row)
          THEN /\ messageBodies' = messageBodies \cup {row}
               /\ tasks' = [tasks EXCEPT ![t].body = row, ![t].pc = "done"]
          ELSE /\ tasks' = [tasks EXCEPT ![t] = Fail(@, "constraint failed")]
               /\ UNCHANGED messageBodies
    /\ UNCHANGED <<now, autoVars, wsVars, histVars, poolVars, accountsDb, folders, messages, attachments, nextId,
                   srvVars>>

GetEmailSteps(t) ==
    \/ GeAccount(t)
    \/ GeMessage(t)
    \/ GeBody(t)
    \/ FmbMessage(t)
    \/ FmbFolder(t)
    \/ FmbOpen(t)
    \/ FmbOpenFail(t)
    \/ \E r \in DownloadResults : FmbDownload(t, r)
    \/ FmbDownloadFail(t)
    \/ \E r \in BodyPartsResults : FmbParts(t, r)
    \/ FmbPartsFail(t)
    \/ GeInsert(t)

(***************************************************************************)
(* AutoconfigService.                                                      *)
(***************************************************************************)
\* The cache's time to live, in ticks.
CACHE_TTL_MS == 2

Domains == {"gmail.com", "example.org"}

\* The addresses looked up: one of a preset domain, two of another domain
\* that differ in case, one without '@' and one with nothing after it.
Emails == {"amy@gmail.com", "bob@example.org", "Bob@Example.ORG", "nobody", "eve@"}

\* email.split('@')[1]?.toLowerCase()
DomainOf(email) ==
    CASE email = "amy@gmail.com" -> "gmail.com"
      [] email = "bob@example.org" -> "example.org"
      [] email = "Bob@Example.ORG" -> "example.org"
      [] email = "eve@" -> ""
      [] OTHER -> Null

\* The sources of a configuration, in the order lookup goes through them.
Sources == <<"preset", "srv", "autoconfig", "ispdb", "mx">>

NotFound == [found |-> FALSE, source |-> Null]

Found(source) == [found |-> TRUE, source |-> source]

EmptyCache == [d \in Domains |-> NoEntry]

\* No source on the network answers for any domain.
NoNet == [d \in Domains |-> [s \in {"srv", "autoconfig", "ispdb", "mx"} |-> FALSE]]

DOMAIN_PRESETS(domain) == IF domain = "gmail.com" THEN "gmail" ELSE Null

\* A lookup that knows no preset.
CheckPresetsNone(domain) == NotFound

\* checkPresets
CheckPresets(domain) ==
    IF DOMAIN_PRESETS(domain) # Null THEN Found("preset") ELSE NotFound

\* lookupSRV, lookupAutoconfig, lookupISPDB, lookupMXPattern: what the source
\* answers for the domain now, tagged with the source; a failure of the
\* request is an answer of not found.
LookupSource(source, domain) ==
    IF net[domain][source] THEN Found(source) ELSE NotFound

\* A lookup that caches nothing.
CacheResultNone(domain, result) == cache

\* cacheResult
CacheResult(domain, result) ==
    [cache EXCEPT ![domain] = [result |-> result, timestamp |-> now]]

\* The cache's entry for the domain, if it is younger than the time to live.
CachedResult(domain) ==
    IF cache[domain] # NoEntry /\ now - cache[domain].timestamp < CACHE_TTL_MS
    THEN cache[domain].result
    ELSE NoRow

\* lookup, up to its first await: the domain of the address, the cache, the
\* presets.
StartLookup(t, email) ==
    /\ tasks[t].pc = "idle"
    /\ hist' = [hist EXCEPT ![t] =
                  [NewHist EXCEPT !.preCache =
                      IF DomainOf(email) \in Domains THEN cache[DomainOf(email)]
                      ELSE NoEntry]]
    /\ LET domain == DomainOf(email)
           call == [IdleTask EXCEPT !.op = "lookup", !.email = email,
                                    !.domain = domain]
       IN IF domain \notin Domains
          THEN /\ tasks' = [tasks EXCEPT ![t] =
                              [call EXCEPT !.result = NotFound, !.pc = "done"]]
               /\ UNCHANGED cache
          ELSE IF CachedResult(domain) # NoRow
          THEN /\ tasks' = [tasks EXCEPT ![t] =
                              [call EXCEPT !.result = CachedResult(domain),
                                           !.fromCache = TRUE, !.pc = "done"]]
               /\ UNCHANGED cache
          ELSE IF CheckPresets(domain).found
          THEN /\ tasks' = [tasks EXCEPT ![t] =
                              [call EXCEPT !.result = CheckPresets(domain),
                                           !.consulted = <<"preset">>,
                                           !.pc = "done"]]
               /\ cache' = CacheResult(domain, CheckPresets(domain))
          ELSE /\ tasks' = [tasks EXCEPT ![t] =
                              [call EXCEPT !.consulted = <<"preset">>,
                                           !.pc = "lk_srv"]]
               /\ UNCHANGED cache
    /\ UNCHANGED <<now, net, wsVars, lastCall, pushed, poolVars, dbVars, srvVars>>

\* One source has answered: a found result is cached and returned, otherwise
\* the next source is asked; after the last one not-found is cached and
\* returned.
LookupStep(t, source, next) ==
    /\ tasks[t].pc = "lk_" \o source
    /\ LET result == LookupSource(source, tasks[t].domain)
           asked == Append(tasks[t].consulted, source)
       IN IF result.found
          THEN /\ tasks' = [tasks EXCEPT ![t].result = result,
                                         ![t].consulted = asked,
                                         ![t].pc = "done"]
               /\ cache' = CacheResult(tasks[t].domain, result)
          ELSE IF next = Null
          THEN /\ tasks' = [tasks EXCEPT ![t].result = NotFound,
                                         ![t].consulted = asked,
                                         ![t].pc = "done"]
               /\ cache' = CacheResult(tasks[t].domain, NotFound)
          ELSE /\ tasks' = [tasks EXCEPT ![t].consulted = asked,
                                         ![t].pc = "lk_" \o next]
               /\ UNCHANGED cache
    /\ UNCHANGED <<now, net, wsVars, histVars, poolVars, dbVars, srvVars>>

LkSrv(t) == LookupStep(t, "srv", "autoconfig")

LkAutoconfig(t) == LookupStep(t, "autoconfig", "ispdb")

LkIspdb(t) == LookupStep(t, "ispdb", "mx")

LkMx(t) == LookupStep(t, "mx", Null)

\* clearCache
ClearCache ==
    /\ cache # EmptyCache
    /\ cache' = EmptyCache
    /\ UNCHANGED <<now, net, wsVars, tasks, histVars, poolVars, dbVars, srvVars>>

\* A record appears or disappears in DNS, or a configuration file at an
\* autoconfig host.
NetChange(d, source) ==
    /\ net' = [net EXCEPT ![d][source] = ~@]
    /\ UNCHANGED <<now, cache, wsVars, tasks, histVars, poolVars, dbVars, srvVars>>

LookupSteps(t) ==
    \/ LkSrv(t)
    \/ LkAutoconfig(t)
    \/ LkIspdb(t)
    \/ LkMx(t)

(***************************************************************************)
(* WebSocketManager and the /ws route.                                     *)
(***************************************************************************)
ConnectionIds == {"c1", "c2"}

\* The events of the pool the manager listens to, and the payload type it
\* broadcasts for each.
PoolEvents == {"connected", "disconnected", "error", "newMail"}

PayloadType(event) ==
    CASE event = "connected" -> "account_connected"
      [] event = "disconnected" -> "account_disconnected"
      [] event = "error" -> "account_error"
      [] event = "newMail" -> "sync_completed"

NoClients == [c \in ConnectionIds |-> NoRow]

NoUserConnections == [u \in Users |-> {}]

\* client.ws.readyState === 1: the socket is open.
OPEN == 1

\* A message sent on the socket of a connection.
Sent(c, type, a) ==
    [connectionId |-> c, userId |-> wsClients[c].userId, type |-> type,
     accountId |-> a]

\* subscribeToAccount that takes the account only when the connection's user
\* owns it.
SubscribedOwned(c, a) ==
    IF wsClients[c] # NoRow /\ accountsDb[a] # NoRow
       /\ accountsDb[a].userId = wsClients[c].userId
    THEN [wsClients EXCEPT ![c].accountSubscriptions = @ \cup {a}]
    ELSE wsClients

\* subscribeToAccount
Subscribed(c, a) ==
    IF wsClients[c] # NoRow
    THEN [wsClients EXCEPT ![c].accountSubscriptions = @ \cup {a}]
    ELSE wsClients

\* unsubscribeFromAccount
Unsubscribed(c, a) ==
    IF wsClients[c] # NoRow
    THEN [wsClients EXCEPT ![c].accountSubscriptions = @ \ {a}]
    ELSE wsClients

\* The route handler for a request whose session cookie validateSession
\* accepted as user u: addConnection, then the 'connected' message.  (A
\* request without a valid session is closed with 4001 and leaves no state.)
WsConnect(c, u) ==
    /\ wsClients[c] = NoRow
    /\ wsClients' = [wsClients EXCEPT ![c] =
                       [userId |-> u, accountSubscriptions |-> {},
                        readyState |-> OPEN]]
    /\ userConnections' = [userConnections EXCEPT ![u] = @ \cup {c}]
    /\ wsSent' = {[connectionId |-> c, userId |-> u, type |-> "connected",
                   accountId |-> Null]}
    /\ UNCHANGED <<now, autoVars, tasks, histVars, poolVars, dbVars, srvVars>>

\* socket.on('message'), type 'subscribe' with an accountId.
WsSubscribe(c, a) ==
    /\ wsClients[c] # NoRow
    /\ wsClients[c].readyState = OPEN
    /\ wsClients' = Subscribed(c, a)
    /\ wsSent' = {Sent(c, "subscribed", a)}
    /\ UNCHANGED <<now, autoVars, userConnections, tasks, histVars, poolVars, dbVars,
                   srvVars>>

\* socket.on('message'), type 'unsubscribe' with an accountId.
WsUnsubscribe(c, a) ==
    /\ wsClients[c] # NoRow
    /\ wsClients[c].readyState = OPEN
    /\ a \in wsClients[c].accountSubscriptions
    /\ wsClients' = Unsubscribed(c, a)
    /\ wsSent' = {}
    /\ UNCHANGED <<now, autoVars, userConnections, tasks, histVars, poolVars, dbVars,
                   srvVars>>

\* The socket leaves the OPEN state; its 'close' handler has not run yet.
WsSocketClosed(c) ==
    /\ wsClients[c] # NoRow
    /\ wsClients[c].readyState = OPEN
    /\ wsClients' = [wsClients EXCEPT ![c].readyState = 3]
    /\ wsSent' = {}
    /\ UNCHANGED <<now, autoVars, userConnections, tasks, histVars, poolVars, dbVars,
                   srvVars>>

\* socket.on('close') and socket.on('error'): removeConnection.
WsRemoveConnection(c) ==
    /\ wsClients[c] # NoRow
    /\ wsClients[c].readyState # OPEN
    /\ userConnections' = [userConnections EXCEPT ![wsClients[c].userId] = @ \ {c}]
    /\ wsClients' = [wsClients EXCEPT ![c] = NoRow]
    /\ wsSent' = {}
    /\ UNCHANGED <<now, autoVars, tasks, histVars, poolVars, dbVars, srvVars>>

\* A listener of setupImapListeners runs for an event the pool emits for an
\* account: broadcastToAccountSubscribers sends the payload on every open
\* socket whose connection has the account among its subscriptions.
WsPoolEvent(event, a) ==
    /\ wsSent' = {Sent(c, PayloadType(event), a) :
                    c \in {d \in ConnectionIds :
                             /\ wsClients[d] # NoRow
                             /\ a \in wsClients[d].accountSubscriptions
                             /\ wsClients[d].readyState = OPEN}}
    /\ wsSent' # wsSent
    /\ UNCHANGED <<now, autoVars, wsClients, userConnections, tasks, histVars, poolVars,
                   dbVars, srvVars>>

(***************************************************************************)
(* The pool on its own: callers, disconnects, the idle sweep and the       *)
(* clients' error and close events, in any interleaving.                   *)
(***************************************************************************)
InitPool ==
    /\ now = 0
    /\ tasks = [t \in Tasks |-> IdleTask]
    /\ hist = [t \in Tasks |-> NoHist]
    /\ lastCall = NoCall
    /\ connections = [a \in Accounts |-> NoConn]
    /\ clients = <<>>
    /\ accountsDb = [a \in Accounts |-> AccountRow("u1")]
    /\ folders = {}
    /\ messages = {}
    /\ messageBodies = {}
    /\ attachments = {}
    /\ wsClients = NoClients
    /\ userConnections = NoUserConnections
    /\ wsSent = {}
    /\ emitted = {}
    /\ pushed = {}
    /\ cache = EmptyCache
    /\ net = NoNet
    /\ nextId = 1
    /\ server = [a \in Accounts |-> [p \in {} |-> NoRow]]
    /\ cmdLog = <<>>

\* The accounts the pool is exercised on (the pool keeps no state across accounts).
PoolAccounts == {"acc1"}

NextPool ==
    \/ \E t \in Tasks, a \in PoolAccounts : StartGetConnection(t, a)
    \/ \E t \in Tasks, a \in PoolAccounts : StartDisconnect(t, a)
    \/ \E t \in Tasks, a \in PoolAccounts : SweepDisconnect(t, a)
    \/ \E t \in Tasks : PoolSteps(t)
    \/ \E t \in Tasks : DisconnectSteps(t)
    \/ \E t \in Tasks : Finish(t)
    \/ \E c \in 1 .. MaxClients : ClientError(c)
    \/ \E c \in 1 .. MaxClients : ClientClose(c)
    \/ Tick

SpecPool == InitPool /\ [][NextPool]_vars

(***************************************************************************)
(* The synchroniser, one call at a time, against a server that other       *)
(* clients keep changing: syncFolders and syncFolder on account acc1.      *)
(***************************************************************************)
\* The flags the server's messages carry in this specification.
SyncFlagLists == {<<>>, <<"\\Seen">>}

SyncAccount == "acc1"

InitSync ==
    /\ now = 0
    /\ tasks = [t \in Tasks |-> IdleTask]
    /\ hist = [t \in Tasks |-> NoHist]
    /\ lastCall = NoCall
    /\ connections = [a \in Accounts |-> NoConn]
    /\ clients = <<>>
    /\ accountsDb = [a \in Accounts |-> AccountRow("u1")]
    /\ folders = {}
    /\ messages = {}
    /\ messageBodies = {}
    /\ attachments = {}
    /\ wsClients = NoClients
    /\ userConnections = NoUserConnections
    /\ wsSent = {}
    /\ emitted = {}
    /\ pushed = {}
    /\ cache = EmptyCache
    /\ net = NoNet
    /\ nextId = 1
    /\ server = [a \in Accounts |->
                   IF a = SyncAccount THEN [p \in {"INBOX"} |-> EmptyMailbox]
                   ELSE [p \in {} |-> NoRow]]
    /\ cmdLog = <<>>

ConnectOkSteps(t) ==
    \/ GetConnection(t)
    \/ ConnectOpen(t)
    \/ ConnectSucceed(t)
    \/ ConnectPersistOk(t)

\* No call is in flight.
Quiescent == \A t \in Tasks : tasks[t].pc = "idle"

\* Other clients of the mailbox act between two calls of the synchroniser.
MessageSteps(a) ==
    \/ \E fl \in SyncFlagLists : ServerDeliver(a, "INBOX", fl)
    \/ \E u \in Uids : ServerExpunge(a, "INBOX", u)
    \/ \E u \in Uids, fl \in SyncFlagLists : ServerSetFlags(a, "INBOX", u, fl)
    \/ ServerRenumber(a, "INBOX")

NextSync ==
    \/ StartSyncFolders("t1", SyncAccount)
    \/ StartSyncFolder("t1", SyncAccount, "INBOX")
    \/ ConnectOkSteps("t1")
    \/ SyncFoldersSteps("t1")
    \/ SyncFolderSteps("t1")
    \/ Finish("t1")
    \/ (Quiescent /\ MessageSteps(SyncAccount))

SpecSync == InitSync /\ [][NextSync]_vars

(***************************************************************************)
(* The folder synchroniser, one call at a time, while mailboxes come and   *)
(* go on the server and the clock advances.                                *)
(***************************************************************************)
ListSteps(a) ==
    \/ ServerCreateMailbox(a, "Work")
    \/ ServerDeleteMailbox(a, "Work")

NextFolders ==
    \/ StartSyncFolders("t1", SyncAccount)
    \/ ConnectOkSteps("t1")
    \/ SyncFoldersSteps("t1")
    \/ Finish("t1")
    \/ (Quiescent /\ ListSteps(SyncAccount))
    \/ Tick

SpecFolders == InitSync /\ [][NextFolders]_vars

\* The folder synchroniser while mailboxes with a declared special use come
\* and go on the server.
NextSpecialUse ==
    \/ StartSyncFolders("t1", SyncAccount)
    \/ ConnectOkSteps("t1")
    \/ SyncFoldersSteps("t1")
    \/ Finish("t1")
    \/ (Quiescent /\ \E use \in SpecialUseAttributes :
                        ServerCreateDeclared(SyncAccount, "Work", use))
    \/ (Quiescent /\ ListSteps(SyncAccount))

SpecSpecialUse == InitSync /\ [][NextSpecialUse]_vars

(***************************************************************************)
(* Two syncFolder calls at once on the same folder, the account connected  *)
(* and its folder list synchronised.  The folder has not been synchronised *)
(* yet, or was when the mailbox was empty under an earlier UIDVALIDITY.    *)
(***************************************************************************)
\* The mailboxes the server may hold at the start: UIDs 1 .. n, any flags.
InitialMailboxes ==
    UNION {{[EmptyMailbox EXCEPT !.uidValidity = v, !.uidNext = n + 1,
                                 !.msgs = m] :
               m \in [1 .. n -> {<<>>}], v \in UidValidities} :
           n \in 0 .. MaxUid}

\* The folder row at the start: as syncFolders inserted it, or as a syncFolder
\* of the then empty mailbox left it.
InitialFolders ==
    LET fresh == NewFolder(1, SyncAccount, [path |-> "INBOX", specialUse |-> Null], 0)
    IN {fresh, [fresh EXCEPT !.uidValidity = 1, !.uidNext = 1]}

InitConc ==
    /\ now = 0
    /\ tasks = [t \in Tasks |-> IdleTask]
    /\ hist = [t \in Tasks |-> NoHist]
    /\ lastCall = NoCall
    /\ connections = [a \in Accounts |->
                        IF a = SyncAccount THEN ConnectionInfo(1) ELSE NoConn]
    /\ clients = <<[accountId |-> SyncAccount, state |-> "connected",
                    selected |-> Null]>>
    /\ accountsDb = [a \in Accounts |->
                       IF a = SyncAccount
                       THEN [AccountRow("u1") EXCEPT !.isConnected = TRUE]
                       ELSE AccountRow("u1")]
    /\ \E mb \in InitialMailboxes :
          server = [a \in Accounts |->
                      IF a = SyncAccount THEN [p \in {"INBOX"} |-> mb]
                      ELSE [p \in {} |-> NoRow]]
    /\ \E f \in InitialFolders : folders = {f}
    /\ messages = {}
    /\ messageBodies = {}
    /\ attachments = {}
    /\ wsClients = NoClients
    /\ userConnections = NoUserConnections
    /\ wsSent = {}
    /\ emitted = {}
    /\ pushed = {}
    /\ cache = EmptyCache
    /\ net = NoNet
    /\ nextId = 2
    /\ cmdLog = <<>>

\* syncFolder when no IMAP command fails.
SyncFolderOkSteps(t) ==
    \/ SfFindFolder(t)
    \/ SfOpen(t)
    \/ SfInvalidate(t)
    \/ SfUpdateFolder(t)
    \/ SfExisting(t)
    \/ SfFetch(t)
    \/ SfMessage(t)
    \/ SfStatus(t)
    \/ SfUnread(t)

NextConc ==
    \/ \E t \in Tasks : StartSyncFolder(t, SyncAccount, "INBOX")
    \/ \E t \in Tasks : GetConnection(t)
    \/ \E t \in Tasks : SyncFolderOkSteps(t)
    \/ \E t \in Tasks : Finish(t)

SpecConc == InitConc /\ [][NextConc]_vars

(***************************************************************************)
(* updateFlags, one call after another, on an account that is connected    *)
(* and synchronised: two messages in INBOX, one in Work.  No IMAP command  *)
(* fails.                                                                  *)
(***************************************************************************)
FlagsAccount == "acc1"

\* The flags of the three messages at the start.
InitialFlags == [1 .. 3 -> FlagLists]

\* The ids updateFlags is called with.
IdSets == {{3, 4}, {3, 5}, {4}}

\* The lists updateFlags is called with as addFlags and as removeFlags.
AddArgs == {<<>>, <<"\\Flagged">>, <<"\\Seen", "\\Flagged">>}

RemoveArgs == {<<>>, <<"\\Seen">>, <<"\\Flagged">>}

SyncedFolder(id, p, n) ==
    [NewFolder(id, FlagsAccount, [path |-> p, specialUse |-> Null], 0)
        EXCEPT !.uidValidity = 1, !.uidNext = n + 1, !.totalMessages = n]

InitFlags ==
    /\ now = 0
    /\ tasks = [t \in Tasks |-> IdleTask]
    /\ hist = [t \in Tasks |-> NoHist]
    /\ lastCall = NoCall
    /\ connections = [a \in Accounts |->
                        IF a = FlagsAccount THEN ConnectionInfo(1) ELSE NoConn]
    /\ clients = <<[accountId |-> FlagsAccount, state |-> "connected",
                    selected |-> Null]>>
    /\ accountsDb = [a \in Accounts |->
                       IF a = FlagsAccount
                       THEN [AccountRow("u1") EXCEPT !.isConnected = TRUE]
                       ELSE AccountRow("u1")]
    /\ folders = {SyncedFolder(1, "INBOX", 2), SyncedFolder(2, "Work", 1)}
    /\ messageBodies = {}
    /\ attachments = {}
    /\ wsClients = NoClients
    /\ userConnections = NoUserConnections
    /\ wsSent = {}
    /\ emitted = {}
    /\ pushed = {}
    /\ cache = EmptyCache
    /\ net = NoNet
    /\ nextId = 6
    /\ cmdLog = <<>>
    /\ \E fl \in InitialFlags :
          /\ messages =
                {NewMessage(3, FlagsAccount, 1, [uid |-> 1, flags |-> fl[1]]),
                 NewMessage(4, FlagsAccount, 1, [uid |-> 2, flags |-> fl[2]]),
                 NewMessage(5, FlagsAccount, 2, [uid |-> 1, flags |-> fl[3]])}
          /\ server = [a \in Accounts |->
                IF a = FlagsAccount
                THEN [p \in Paths |->
                        IF p = "INBOX"
                        THEN [EmptyMailbox EXCEPT !.uidNext = 3,
                                                  !.msgs = <<fl[1], fl[2]>>]
                        ELSE [EmptyMailbox EXCEPT !.uidNext = 2,
                                                  !.msgs = <<fl[3]>>]]
                ELSE [p \in {} |-> NoRow]]

NextFlags ==
    \/ \E u \in Users, ids \in IdSets, add \in AddArgs, remove \in RemoveArgs :
          StartUpdateFlags("t1", u, FlagsAccount, ids, add, remove)
    \/ GetConnection("t1")
    \/ UpdateFlagsOkSteps("t1")
    \/ Finish("t1")

SpecFlags == InitFlags /\ [][NextFlags]_vars

(***************************************************************************)
(* The same account, updateFlags called with one flag to add or one flag   *)
(* to remove, each call remembered when it returns.  IMAP commands may     *)
(* fail.                                                                   *)
(***************************************************************************)
\* <<addFlags, removeFlags>>: one flag added, or one flag removed.
OneFlagArgs ==
    {<<<<f>>, <<>>>> : f \in Flags} \cup {<<<<>>, <<f>>>> : f \in Flags}

NextRoundTrip ==
    \/ \E ids \in IdSets, args \in OneFlagArgs :
          StartUpdateFlags("t1", "u1", FlagsAccount, ids, args[1], args[2])
    \/ GetConnection("t1")
    \/ UpdateFlagsSteps("t1")
    \/ FinishUpdateFlags("t1")

SpecRoundTrip == InitFlags /\ [][NextRoundTrip]_vars

(***************************************************************************)
(* moveMessages, one call after another.  Account acc1 of user u1 is       *)
(* connected and synchronised, two messages in INBOX and one in Work;      *)
(* account acc2 of user u2 has one message in its INBOX.                   *)
(***************************************************************************)
OtherAccount == "acc2"

\* The flags of acc1's three messages at the start.
InitialSyncFlags == [1 .. 3 -> SyncFlagLists]

\* The ids the mutations are called with: 7 is the message of acc2.
MoveIdSets == {{3, 4}, {3, 5}, {4}, {4, 7}}

\* The folders named as target: 6 is the INBOX of acc2.
TargetIds == {1, 2, 6}

InitAccounts(workUse, initialFlags) ==
    /\ now = 0
    /\ tasks = [t \in Tasks |-> IdleTask]
    /\ hist = [t \in Tasks |-> NoHist]
    /\ lastCall = NoCall
    /\ connections = [a \in Accounts |->
                        IF a = FlagsAccount THEN ConnectionInfo(1) ELSE NoConn]
    /\ clients = <<[accountId |-> FlagsAccount, state |-> "connected",
                    selected |-> Null]>>
    /\ accountsDb = [a \in Accounts |->
                       IF a = FlagsAccount
                       THEN [AccountRow("u1") EXCEPT !.isConnected = TRUE]
                       ELSE AccountRow("u2")]
    /\ folders = {SyncedFolder(1, "INBOX", 2),
                  [SyncedFolder(2, "Work", 1) EXCEPT !.specialUse = workUse],
                  [SyncedFolder(6, "INBOX", 1) EXCEPT !.accountId = OtherAccount]}
    /\ messageBodies = {}
    /\ attachments = {}
    /\ wsClients = NoClients
    /\ userConnections = NoUserConnections
    /\ wsSent = {}
    /\ emitted = {}
    /\ pushed = {}
    /\ cache = EmptyCache
    /\ net = NoNet
    /\ nextId = 8
    /\ cmdLog = <<>>
    /\ \E fl \in initialFlags :
          /\ messages =
                {NewMessage(3, FlagsAccount, 1, [uid |-> 1, flags |-> fl[1]]),
                 NewMessage(4, FlagsAccount, 1, [uid |-> 2, flags |-> fl[2]]),
                 NewMessage(5, FlagsAccount, 2, [uid |-> 1, flags |-> fl[3]]),
                 NewMessage(7, OtherAccount, 6, [uid |-> 1, flags |-> <<>>])}
          /\ server = [a \in Accounts |->
                IF a = FlagsAccount
                THEN [p \in Paths |->
                        IF p = "INBOX"
                        THEN [EmptyMailbox EXCEPT !.uidNext = 3,
                                                  !.msgs = <<fl[1], fl[2]>>]
                        ELSE [EmptyMailbox EXCEPT !.uidNext = 2,
                                                  !.msgs = <<fl[3]>>]]
                ELSE [p \in {"INBOX"} |->
                        [EmptyMailbox EXCEPT !.uidNext = 2, !.msgs = <<<<>>>>]]]

InitMove == InitAccounts(Null, InitialSyncFlags)

NextMove ==
    \/ \E u \in Users, ids \in MoveIdSets, target \in TargetIds :
          StartMoveMessages("t1", u, FlagsAccount, ids, target)
    \/ GetConnection("t1")
    \/ MoveMessagesSteps("t1")
    \/ Finish("t1")

SpecMove == InitMove /\ [][NextMove]_vars

(***************************************************************************)
(* The three mutations, one call after another, by the owner of acc1 or by *)
(* the other user.  The server may have declared Work the trash folder.    *)
(* No IMAP command fails.                                                  *)
(***************************************************************************)
InitMutations ==
    \E workUse \in {Null, "trash"} :
        InitAccounts(workUse, {<<<<>>, <<"\\Seen">>, <<>>>>})

NextMutations ==
    \/ \E u \in Users, ids \in MoveIdSets :
          StartUpdateFlags("t1", u, FlagsAccount, ids, <<"\\Flagged">>,
                           <<"\\Seen">>)
    \/ \E u \in Users, ids \in MoveIdSets, target \in TargetIds :
          StartMoveMessages("t1", u, FlagsAccount, ids, target)
    \/ \E u \in Users, ids \in MoveIdSets, permanent \in BOOLEAN :
          StartDeleteMessages("t1", u, FlagsAccount, ids, permanent)
    \/ GetConnection("t1")
    \/ UpdateFlagsOkSteps("t1")
    \/ MoveMessagesOkSteps("t1")
    \/ DeleteMessagesOkSteps("t1")
    \/ Finish("t1")

SpecMutations == InitMutations /\ [][NextMutations]_vars

\* Reading messages of one account, two calls at a time: ids 3 and 5 are the
\* account's, id 7 is another account's.
ReadIds == {3, 5, 7}

InitBody == InitAccounts(Null, {<<<<>>, <<"\\Seen">>, <<>>>>})

NextBody ==
    \/ \E t \in Tasks, u \in Users, id \in ReadIds :
          StartGetEmail(t, u, FlagsAccount, id)
    \/ \E t \in Tasks : GetConnection(t)
    \/ \E t \in Tasks : GetEmailSteps(t)
    \/ \E t \in Tasks : Finish(t)

SpecBody == InitBody /\ [][NextBody]_vars

\* Operations of one account while the clock advances and the account's
\* session is disconnected, by the idle sweep or by a caller.
SweepSyncSteps(t) ==
    \/ SfFindFolder(t)
    \/ SfOpen(t)
    \/ SfOpenFail(t)
    \/ SfUpdateFolder(t)
    \/ SfExisting(t)
    \/ SfFetch(t)
    \/ \E k \in 0 .. Cardinality(Uids) : SfFetchFail(t, k)
    \/ SfMessage(t)
    \/ SfStatus(t)
    \/ SfStatusFail(t)
    \/ SfUnread(t)

InitSweep == InitAccounts(Null, {<<<<>>, <<"\\Seen">>, <<>>>>})

NextSweep ==
    \/ StartSyncFolder("t1", FlagsAccount, "INBOX")
    \/ ConnectOkSteps("t1")
    \/ SweepSyncSteps("t1")
    \/ Finish("t1")
    \/ Tick
    \/ SweepDisconnect("t2", FlagsAccount)
    \/ DisconnectSteps("t2")
    \/ Finish("t2")

SpecSweep == InitSweep /\ [][NextSweep]_vars

\* Push events of the server while the synchroniser selects mailboxes on the
\* account's session.
MaxCount == 2

InitPush == InitAccounts(Null, {<<<<>>, <<"\\Seen">>, <<>>>>})

NextPush ==
    \/ \E p \in Paths : StartSyncFolder("t1", FlagsAccount, p)
    \/ GetConnection("t1")
    \/ SweepSyncSteps("t1")
    \/ Finish("t1")
    \/ \E c \in 1 .. MaxClients, count, prevCount \in 0 .. MaxCount :
          ClientExists(c, count, prevCount)
    \/ \E c \in 1 .. MaxClients : ClientFlags(c)

SpecPush == InitPush /\ [][NextPush]_vars

\* Two updateFlags calls of one account at a time, each for a message of
\* another folder, on the session they share.
InitShared == InitAccounts(Null, {<<<<>>, <<"\\Seen">>, <<>>>>})

NextShared ==
    \/ \E ids \in {{3}, {5}}, t \in Tasks :
          StartUpdateFlags(t, "u1", FlagsAccount, ids, <<"\\Flagged">>, <<"\\Seen">>)
    \/ \E t \in Tasks : GetConnection(t)
    \/ \E t \in Tasks : UpdateFlagsOkSteps(t)
    \/ \E t \in Tasks : Finish(t)

SpecShared == InitShared /\ [][NextShared]_vars

(***************************************************************************)
(* Batches over several folders: updateFlags and moveMessages of one       *)
(* caller over rows of INBOX and Work, where any IMAP command may fail.    *)
(***************************************************************************)
NextBatch ==
    \/ \E u \in Users, ids \in MoveIdSets :
          StartUpdateFlags("t1", u, FlagsAccount, ids, <<"\\Flagged">>, <<"\\Seen">>)
    \/ \E u \in Users, ids \in MoveIdSets, target \in TargetIds :
          StartMoveMessages("t1", u, FlagsAccount, ids, target)
    \/ GetConnection("t1")
    \/ UpdateFlagsSteps("t1")
    \/ MoveMessagesSteps("t1")
    \/ Finish("t1")

SpecBatch == InitMove /\ [][NextBatch]_vars

(***************************************************************************)
(* deleteMessages(permanent = false) and updateFlags of one caller, on an   *)
(* account with or without a trash folder; no IMAP command fails.  Every   *)
(* awaited call settles, so a step that can be taken is taken in the end.  *)
(***************************************************************************)
NextTrash ==
    \/ \E ids \in MoveIdSets :
          StartUpdateFlags("t1", "u1", FlagsAccount, ids, <<"\\Flagged">>,
                           <<"\\Seen">>)
    \/ \E u \in Users, ids \in MoveIdSets :
          StartDeleteMessages("t1", u, FlagsAccount, ids, FALSE)
    \/ GetConnection("t1")
    \/ UpdateFlagsOkSteps("t1")
    \/ MoveMessagesOkSteps("t1")
    \/ DeleteMessagesOkSteps("t1")
    \/ Finish("t1")

SpecTrash == InitMutations /\ [][NextTrash]_vars /\ WF_vars(NextTrash)

(***************************************************************************)
(* updateFlags and syncFolder of one caller, one after the other, on a     *)
(* synchronised account.  IMAP gives the flags of a message no order: the  *)
(* server may list the same flags in another order than they were stored   *)
(* in, which changes no flag.  The provider may renumber Work.             *)
(***************************************************************************)
ServerReorder(a, p, u, fl) ==
    /\ p \in DOMAIN server[a]
    /\ u \in DOMAIN server[a][p].msgs
    /\ Range(fl) = Range(server[a][p].msgs[u])
    /\ fl # server[a][p].msgs[u]
    /\ server' = [server EXCEPT ![a][p].msgs[u] = fl]
    /\ UNCHANGED <<now, autoVars, wsVars, histVars, tasks, poolVars, dbVars, cmdLog>>

ResyncIdSets == {{4}, {3, 5}}

NextResync ==
    \/ \E ids \in ResyncIdSets, args \in OneFlagArgs :
          StartUpdateFlags("t1", "u1", FlagsAccount, ids, args[1], args[2])
    \/ \E p \in Paths : StartSyncFolder("t1", FlagsAccount, p)
    \/ GetConnection("t1")
    \/ UpdateFlagsOkSteps("t1")
    \/ SyncFolderOkSteps("t1")
    \/ Finish("t1")
    \/ \E u \in Uids, fl \in FlagLists :
          ServerReorder(FlagsAccount, "INBOX", u, fl)
    \/ ServerRenumber(FlagsAccount, "Work")

SpecResync == InitShared /\ [][NextResync]_vars

(***************************************************************************)
(* syncFolder of a mailbox whose messages carry attachments, by two        *)
(* callers at once: the mailbox holds up to MaxUid messages, each a text   *)
(* part or a multipart message with attached files.  The database may      *)
(* refuse the insert of an attachment row.                                 *)
(***************************************************************************)
Leaf(disposition) == [disposition |-> disposition, childNodes |-> <<>>]

Multipart(children) == [disposition |-> Null, childNodes |-> children]

SampleStructures ==
    {TextPart,
     Leaf("attachment"),
     Multipart(<<TextPart, Leaf("attachment")>>),
     Multipart(<<Multipart(<<TextPart, TextPart>>), Leaf("inline"),
                 Leaf("attachment")>>)}

InitInsert ==
    /\ now = 0
    /\ tasks = [t \in Tasks |-> IdleTask]
    /\ hist = [t \in Tasks |-> NoHist]
    /\ lastCall = NoCall
    /\ connections = [a \in Accounts |->
                        IF a = SyncAccount THEN ConnectionInfo(1) ELSE NoConn]
    /\ clients = <<[accountId |-> SyncAccount, state |-> "connected",
                    selected |-> Null]>>
    /\ accountsDb = [a \in Accounts |->
                       IF a = SyncAccount
                       THEN [AccountRow("u1") EXCEPT !.isConnected = TRUE]
                       ELSE AccountRow("u1")]
    /\ \E mb \in InitialMailboxes, st \in [1 .. MaxUid -> SampleStructures] :
          server = [a \in Accounts |->
                      IF a = SyncAccount
                      THEN [p \in {"INBOX"} |->
                              [mb EXCEPT !.structures =
                                  [u \in DOMAIN mb.msgs |-> st[u]]]]
                      ELSE [p \in {} |-> NoRow]]
    /\ \E f \in InitialFolders : folders = {f}
    /\ messages = {}
    /\ messageBodies = {}
    /\ attachments = {}
    /\ wsClients = NoClients
    /\ userConnections = NoUserConnections
    /\ wsSent = {}
    /\ emitted = {}
    /\ pushed = {}
    /\ cache = EmptyCache
    /\ net = NoNet
    /\ nextId = 2
    /\ cmdLog = <<>>

NextInsert ==
    \/ \E t \in Tasks : StartSyncFolder(t, SyncAccount, "INBOX")
    \/ \E t \in Tasks : GetConnection(t)
    \/ \E t \in Tasks : SyncFolderOkSteps(t)
    \/ \E t \in Tasks : InsertMessageSteps(t)
    \/ \E t \in Tasks : Finish(t)

SpecInsert == InitInsert /\ [][NextInsert]_vars

(***************************************************************************)
(* The WebSocket layer: two sockets of the users u1 and u2, who own one    *)
(* account each, subscribing and unsubscribing while the pool emits its    *)
(* events.                                                                 *)
(***************************************************************************)
NextWs ==
    \/ \E c \in ConnectionIds, u \in Users : WsConnect(c, u)
    \/ \E c \in ConnectionIds, a \in Accounts : WsSubscribe(c, a)
    \/ \E c \in ConnectionIds, a \in Accounts : WsUnsubscribe(c, a)
    \/ \E c \in ConnectionIds : WsSocketClosed(c)
    \/ \E c \in ConnectionIds : WsRemoveConnection(c)
    \/ \E event \in PoolEvents, a \in Accounts : WsPoolEvent(event, a)

SpecWs == InitShared /\ [][NextWs]_vars

\* Lookups of mail configurations, one at a time, while the clock advances,
\* the cache is cleared and, between lookups, the sources change.
InitAutoconfig ==
    /\ now = 0
    /\ tasks = [t \in Tasks |-> IdleTask]
    /\ hist = [t \in Tasks |-> NoHist]
    /\ lastCall = NoCall
    /\ pushed = {}
    /\ connections = [a \in Accounts |-> NoConn]
    /\ clients = <<>>
    /\ emitted = {}
    /\ accountsDb = [a \in Accounts |-> AccountRow("u1")]
    /\ folders = {}
    /\ messages = {}
    /\ messageBodies = {}
    /\ attachments = {}
    /\ wsClients = NoClients
    /\ userConnections = NoUserConnections
    /\ wsSent = {}
    /\ nextId = 1
    /\ server = [a \in Accounts |-> [p \in {} |-> NoRow]]
    /\ cmdLog = <<>>
    /\ cache = EmptyCache
    /\ net \in {n \in [Domains -> [{"srv", "autoconfig", "ispdb", "mx"} -> BOOLEAN]] :
                   \A source \in {"autoconfig", "ispdb", "mx"} :
                       ~n["gmail.com"][source]}

NextAutoconfig ==
    \/ \E email \in Emails : StartLookup("t1", email)
    \/ LookupSteps("t1")
    \/ Finish("t1")
    \/ ClearCache
    \/ Tick
    \/ (Quiescent /\ \E source \in {"srv", "autoconfig", "ispdb", "mx"} :
                        NetChange("example.org", source))

SpecAutoconfig == InitAutoconfig /\ [][NextAutoconfig]_vars

(***************************************************************************)
(* Properties of the connection pool.                                      *)
(***************************************************************************)
InConnect(t) == tasks[t].pc \in {"connecting", "connect_persistOk"}

LiveClients(a) ==
    {c \in DOMAIN clients :
        clients[c].accountId = a /\ clients[c].state = "connected"}

\* C1: getConnection is single-flight per account: the callers that are inside
\* connect() for the same account at the same time, each having found no
\* connected session in the pool, all wait on one and the same IMAP client
\* (client.connect is invoked once and every caller receives that session).
C1_SingleFlight ==
    \A t1, t2 \in Tasks :
        (/\ InConnect(t1) /\ InConnect(t2)
         /\ tasks[t1].acct = tasks[t2].acct)
        => tasks[t1].client = tasks[t2].client

\* C2: in every reachable state each account has at most one IMAP client that
\* is connected and not yet logged out or closed, and that client is the one
\* the pool's map records for the account.
C2_OneLiveSession ==
    \A a \in Accounts :
        /\ Cardinality(LiveClients(a)) <= 1
        /\ \A c \in LiveClients(a) :
              connections[a] # NoConn /\ connections[a].client = c

\* The pool reports the account connected.
PoolConnected(a) == connections[a] # NoConn /\ connections[a].isConnected

\* The task is inside connect().
InsideConnect(t) ==
    tasks[t].pc \in {"connect", "connecting", "connect_persistOk",
                     "connect_persistErr"}

\* C14: connect has two outcomes.  When it returns the client, the pool
\* reports the account connected and the account row has isConnected = true
\* and lastError = null; when it throws, the account row has
\* isConnected = false and lastError set, and the pool reports the account
\* not connected.
C14_TwoOutcomes ==
    [][\A t \in Tasks :
          /\ (InsideConnect(t) /\ tasks'[t].pc = "failed") =>
                /\ ~accountsDb'[tasks[t].acct].isConnected
                /\ accountsDb'[tasks[t].acct].lastError # Null
                /\ connections'[tasks[t].acct] = NoConn
                     \/ ~connections'[tasks[t].acct].isConnected
          /\ (InsideConnect(t) /\ ~InsideConnect(t)' /\ tasks'[t].pc # "failed") =>
                /\ accountsDb'[tasks[t].acct].isConnected
                /\ accountsDb'[tasks[t].acct].lastError = Null
                /\ connections'[tasks[t].acct] # NoConn
                /\ connections'[tasks[t].acct].isConnected]_vars

\* The task runs disconnect(), called directly or by the idle sweep.
InDisconnect(t) == tasks[t].op \in {"disconnect", "sweep"}

\* C15: disconnect leaves the pool with no entry for the account, whether
\* logout() returned or threw, and persists isConnected = false without
\* touching the pool again; a disconnect that finds no entry for the account
\* (a second disconnect, or an account never connected) completes without
\* error and changes neither the pool nor the database.
C15_DisconnectClears ==
    [][\A t \in Tasks : InDisconnect(t) =>
          LET a == tasks[t].acct
          IN /\ (tasks[t].pc = "disconnect_logout" /\ tasks'[t].pc # tasks[t].pc) =>
                    /\ connections'[a] = NoConn
                    /\ tasks'[t].pc = "disconnect_persist"
             /\ (tasks[t].pc = "disconnect_persist" /\ tasks'[t].pc # tasks[t].pc) =>
                    /\ tasks'[t].pc = "done"
                    /\ UNCHANGED poolVars
                    /\ ~accountsDb'[a].isConnected
             /\ (tasks[t].pc = "disconnect" /\ connections[a] = NoConn
                   /\ tasks'[t].pc # tasks[t].pc) =>
                    /\ tasks'[t].pc = "done"
                    /\ tasks'[t].error = ""
                    /\ UNCHANGED <<poolVars, dbVars>>]_vars

\* One disconnect has completed after a logout() that threw and the pool has
\* no entry for the account, and another one has completed without having
\* found an entry.
C15_Witness ==
    \E t, u \in Tasks :
        /\ t # u
        /\ tasks[t].op = "disconnect" /\ tasks[t].pc = "done"
        /\ tasks[t].error = "logout failed (ignored)"
        /\ tasks[u].op = "disconnect" /\ tasks[u].pc = "done"
        /\ tasks[u].acct = tasks[t].acct /\ tasks[u].client = 0
        /\ connections[tasks[t].acct] = NoConn

\* A step of the pool that is no caller's: an event of a client.
ClientEvent == tasks' = tasks /\ now' = now

\* C20: an error or close event of a client leaves the pool reporting the
\* account not connected and starts no connect (no client is created and the
\* account does not become connected again); the account becomes connected
\* only by a step of a caller's connect; and a getConnection that finds the
\* account not connected goes into connect, which creates a new client and
\* returns that one.
C20_NoAutoReconnect ==
    [][/\ ClientEvent =>
            /\ Len(clients') = Len(clients)
            /\ \A a \in Accounts :
                  (\/ connections'[a] # connections[a]
                   \/ \E c \in DOMAIN clients :
                         clients[c].accountId = a /\ clients'[c] # clients[c])
                     => ~PoolConnected(a)'
       /\ \A a \in Accounts :
             (~PoolConnected(a) /\ PoolConnected(a)') =>
                 \E t \in Tasks : /\ InsideConnect(t) /\ tasks[t].acct = a
                                  /\ tasks'[t] # tasks[t]
                                  /\ connections'[a].client = tasks[t].client
       /\ \A t \in Tasks :
             /\ (tasks[t].pc = "getConnection" /\ ~PoolConnected(tasks[t].acct)
                   /\ tasks'[t] # tasks[t]) =>
                    tasks'[t].pc = "connect" /\ tasks'[t].client = 0
             /\ (tasks[t].pc = "connect" /\ tasks'[t].pc = "connecting") =>
                    /\ Len(clients') = Len(clients) + 1
                    /\ tasks'[t].client = Len(clients')
             /\ (InsideConnect(t) /\ tasks[t].pc # "connect"
                   /\ tasks'[t] # tasks[t]) =>
                    tasks'[t].client = tasks[t].client]_vars

\* The account's first client has closed, and a later getConnection has
\* returned a second client, which the pool reports connected.
C20_Witness ==
    \E t \in Tasks :
        /\ tasks[t].op = "getConnection" /\ tasks[t].pc = "done"
        /\ tasks[t].client = 2
        /\ clients[1].state = "closed"
        /\ clients[1].accountId = tasks[t].acct
        /\ PoolConnected(tasks[t].acct)
        /\ connections[tasks[t].acct].client = 2

\* C21: every push event a client has raised, a growth of the message count
\* or a change of flags, has been answered by an event emitted to the pool's
\* listeners with the account and the mailbox path of the push event.
C21_PushForwarded ==
    \A e \in pushed :
        (e.kind = "flags" \/ e.grew) =>
            \E d \in emitted : d.accountId = e.accountId /\ d.path = e.path

\* The task is inside an operation that got the client from getConnection and
\* has not returned yet.
InFlightOn(t, c) ==
    /\ tasks[t].op \in {"syncFolder", "syncFolders", "updateFlags",
                        "moveMessages", "deleteMessages", "getEmail"}
    /\ tasks[t].client = c
    /\ tasks[t].pc \notin {"idle", "done", "failed"}

\* C18: the idle sweep never starts disconnecting an account whose session is
\* being used by an operation still in flight.
C18_SweepSparesInFlight ==
    [][\A s \in Tasks :
          (tasks[s].pc = "idle" /\ tasks'[s].op = "sweep") =>
              \A t \in Tasks :
                  ~InFlightOn(t, connections[tasks'[s].acct].client)]_vars

\* The position of the call is an IMAP command on the session.
AtImapCommand(t) ==
    tasks[t].pc \in {"sf_open", "sf_fetch", "sf_status",
                     "uf_open", "uf_add", "uf_remove",
                     "mv_open", "mv_move", "dm_open", "dm_expunge"}

\* C19: an operation whose session has been disconnected under it fails: its
\* next IMAP command ends the call with an error.
C19_DisconnectFailsOperation ==
    [][\A t \in Tasks :
          (AtImapCommand(t) /\ ~Usable(tasks[t].client)
             /\ tasks'[t].pc # tasks[t].pc) => tasks'[t].pc = "failed"]_vars

(***************************************************************************)
(* Properties of the synchroniser.                                         *)
(***************************************************************************)
\* A syncFolder call that has returned.
SyncFolderDone(t) == tasks[t].op = "syncFolder" /\ tasks[t].pc = "done"

\* A syncFolders call that has returned.
SyncFoldersDone(t) == tasks[t].op = "syncFolders" /\ tasks[t].pc = "done"

\* Nothing went wrong during the call and the server kept still.
NoError(t) ==
    /\ ~tasks[t].fetchError
    /\ tasks[t].insertErrors = 0
    /\ ~hist[t].dirty

\* The messages the folder held when the call started.
PriorRows(t) == {m \in hist[t].preMessages : m.folderId = tasks[t].folder.id}

\* The call found a stored, non-null uidValidity and saw another on the server,
\* the folder holding messages.
SawInvalidation(t) ==
    /\ SyncFolderDone(t)
    /\ PriorRows(t) # {}
    /\ tasks[t].folder.uidValidity # NullNumber
    /\ tasks[t].folder.uidValidity # tasks[t].mailbox.uidValidity

\* C3: when syncFolder finds that the uidValidity stored for a folder holding
\* messages differs from the one the server reports, then once it has returned
\* none of the message rows the folder held before the call is left and the
\* folder row holds the uidValidity just observed.
C3_Invalidation ==
    \A t \in Tasks :
        SawInvalidation(t) =>
            /\ \A m \in messages : m.id \notin {r.id : r \in PriorRows(t)}
            /\ \E f \in folders :
                  /\ f.id = tasks[t].folder.id
                  /\ f.uidValidity = tasks[t].mailbox.uidValidity

\* An invalidating syncFolder has returned, and the folder holds the messages
\* fetched under the new uidValidity.
C3_Witness ==
    \E t \in Tasks :
        /\ SawInvalidation(t)
        /\ MessagesIn(tasks[t].folder.id) # {}

\* C5: after a syncFolder that completed without error, no row is left for a
\* UID that is gone from the server: the folder's local UIDs are the server's.
C5_ExpungeMirrored ==
    \A t \in Tasks :
        (SyncFolderDone(t) /\ NoError(t)) =>
            UidsIn(tasks[t].folder.id) =
                DOMAIN server[tasks[t].acct][tasks[t].path].msgs

\* The call started on a folder row as syncFolders inserts it, with no message
\* stored locally.
FreshStart(t) ==
    /\ SyncFolderDone(t)
    /\ hist[t].preMessages = {}
    /\ tasks[t].folder.uidValidity = NullNumber
    /\ tasks[t].folder.totalMessages = 0

\* C6: from empty local storage, syncFolders and then an error-free syncFolder
\* of a mailbox with uidValidity V and UIDs S leave exactly the UIDs S in the
\* folder's message rows, and uidValidity = V, totalMessages = |S| in its row.
C6_FreshSync ==
    \A t \in Tasks :
        (FreshStart(t) /\ NoError(t)) =>
            LET mb == server[tasks[t].acct][tasks[t].path]
            IN /\ UidsIn(tasks[t].folder.id) = DOMAIN mb.msgs
               /\ Cardinality(MessagesIn(tasks[t].folder.id)) =
                      Cardinality(DOMAIN mb.msgs)
               /\ \E f \in folders :
                     /\ f.id = tasks[t].folder.id
                     /\ f.uidValidity = mb.uidValidity
                     /\ f.totalMessages = Cardinality(DOMAIN mb.msgs)

\* A first syncFolder has returned on a mailbox of two messages.
C6_Witness ==
    \E t \in Tasks :
        /\ FreshStart(t) /\ NoError(t)
        /\ Cardinality(DOMAIN server[tasks[t].acct][tasks[t].path].msgs) >= 2

\* The paths client.list() returned to the call.
ListedPaths(t) == {tasks[t].listed[i].path : i \in DOMAIN tasks[t].listed}

\* C7: once syncFolders has returned, the paths of the account's folder rows
\* are the paths of the server's list: one row for each listed mailbox, and no
\* row for a path that is not listed.
C7_FoldersMatchList ==
    \A t \in Tasks :
        SyncFoldersDone(t) =>
            /\ {f.path : f \in {g \in folders : g.accountId = tasks[t].acct}}
                   = ListedPaths(t)
            /\ \A p \in ListedPaths(t) :
                  Cardinality(FolderOf(tasks[t].acct, p)) = 1

\* A syncFolders has returned that found a local folder not listed any more.
C7_Witness ==
    \E t \in Tasks :
        /\ SyncFoldersDone(t)
        /\ \E f \in hist[t].preFolders : f.path \notin ListedPaths(t)
        /\ ListedPaths(t) # {}

\* The call follows a syncFolders of the same account that returned, and the
\* server has not changed since that one started.
SecondInARow(t) ==
    /\ SyncFoldersDone(t)
    /\ hist[t].after.op = "syncFolders"
    /\ hist[t].after.acct = tasks[t].acct
    /\ hist[t].after.ok
    /\ hist[t].after.clean
    /\ ~hist[t].dirty

\* C8 as stated: a second syncFolders in a row, the server unchanged, leaves
\* every folder row identical field by field.
C8_NoRowMutation ==
    \A t \in Tasks : SecondInARow(t) => folders = hist[t].preFolders

WithoutStamp(f) == [f EXCEPT !.lastSyncAt = Null]

\* C8, amended: a second syncFolders in a row, the server unchanged, inserts
\* and deletes no row and leaves every field of every folder row as it was,
\* except lastSyncAt, which takes the time of the call.
C8_NoRowMutationButStamp ==
    \A t \in Tasks :
        SecondInARow(t) =>
            /\ {WithoutStamp(f) : f \in folders}
                   = {WithoutStamp(f) : f \in hist[t].preFolders}
            /\ Cardinality(folders) = Cardinality(hist[t].preFolders)
            /\ messages = hist[t].preMessages
            /\ \A f \in folders :
                  f.accountId = tasks[t].acct => f.lastSyncAt = tasks[t].stamp

\* A second syncFolders in a row has returned at a later time than the first.
C8_Witness ==
    \E t \in Tasks :
        /\ SecondInARow(t)
        /\ folders # hist[t].preFolders
        /\ Cardinality(folders) >= 2

\* C4: in every state, two syncFolder calls running at once on the folder
\* included, no two message rows have the same folderId and uid: the insert of
\* a duplicate is rejected and leaves the one row.
C4_UidUnique ==
    \A m1, m2 \in messages :
        (m1.folderId = m2.folderId /\ m1.uid = m2.uid) => m1 = m2

\* A syncFolder call had its insert rejected: the other call had stored the
\* UID in between.
C4_Witness ==
    \E t \in Tasks :
        /\ tasks[t].op = "syncFolder"
        /\ tasks[t].insertErrors > 0
        /\ messages # {}

\* C16: when the fetch of the message list fails during syncFolder, the
\* folder's message rows and its folder row (uidValidity, uidNext,
\* totalMessages, unreadMessages) are, once the call has ended, what they were
\* before the call.
C16_FetchFailureKeepsState ==
    \A t \in Tasks :
        (tasks[t].op = "syncFolder" /\ tasks[t].pc \in {"done", "failed"}
           /\ tasks[t].fetchError) =>
            /\ MessagesIn(tasks[t].folder.id) = PriorRows(t)
            /\ \E f \in folders :
                  /\ f.id = tasks[t].folder.id
                  /\ WithoutStamp(f) = WithoutStamp(tasks[t].folder)

\* The special-use values of the shared types.
SpecialFolder ==
    {"inbox", "sent", "drafts", "trash", "spam", "archive", "all", "flagged"}

\* C22: the specialUse of every folder row is one of inbox, sent, drafts,
\* trash, spam, archive, all, flagged, or null.
C22_SpecialUseClosed ==
    \A f \in folders : f.specialUse \in SpecialFolder \cup {Null}

(***************************************************************************)
(* Properties of updateFlags.                                              *)
(***************************************************************************)
UpdateFlagsDone(t) == tasks[t].op = "updateFlags" /\ tasks[t].pc = "done"

\* The messages the call is aimed at: the account's rows among emailIds.
Targeted(t, rows) ==
    {m \in rows : m.accountId = tasks[t].acct /\ m.id \in tasks[t].emailIds}

\* The flags a message had in a set of rows.
FlagsIn(rows, id) == (CHOOSE m \in rows : m.id = id).flags

\* The call's commands of one kind on one mailbox.
Commands(t, name, p) ==
    {i \in DOMAIN cmdLog : /\ cmdLog[i].task = t
                           /\ cmdLog[i].command = name
                           /\ cmdLog[i].path = p}

\* Exactly one command when the list is not empty, none when it is, and the
\* one command names the targeted UIDs of the folder.
OneCommand(t, name, fl, f) ==
    LET cs == Commands(t, name, f.path)
        uids == {m.uid : m \in {r \in Targeted(t, messages) : r.folderId = f.id}}
    IN IF fl = <<>> \/ uids = {}
       THEN cs = {}
       ELSE /\ Cardinality(cs) = 1
            /\ \A i \in cs : /\ Range(cmdLog[i].uids) = uids
                             /\ cmdLog[i].flags = fl

\* C10: after a successful updateFlags, each targeted message has the flags
\* (old + add) - remove, none twice, the flags that are neither added nor
\* removed in their old order; every other message has its flags unchanged;
\* each folder with targeted messages got exactly one add command if add is
\* not empty and one remove command if remove is not empty, on all the
\* targeted UIDs of the folder, and no other folder got a command.
C10_FlagsUpdated ==
    \A t \in Tasks :
        UpdateFlagsDone(t) =>
            LET add == Range(tasks[t].addFlags)
                remove == Range(tasks[t].removeFlags)
            IN /\ {m.id : m \in messages} = {m.id : m \in hist[t].preMessages}
               /\ \A m \in Targeted(t, messages) :
                     LET old == FlagsIn(hist[t].preMessages, m.id)
                     IN /\ Range(m.flags) = (Range(old) \cup add) \ remove
                        /\ NoDup(m.flags)
                        /\ SelectSeq(m.flags, LAMBDA x : x \notin add)
                             = SelectSeq(old, LAMBDA x : x \notin add \cup remove)
               /\ \A m \in messages \ Targeted(t, messages) :
                     m.flags = FlagsIn(hist[t].preMessages, m.id)
               /\ \A f \in folders :
                     /\ OneCommand(t, "messageFlagsAdd", tasks[t].addFlags, f)
                     /\ OneCommand(t, "messageFlagsRemove", tasks[t].removeFlags, f)

\* An updateFlags that adds and removes has returned: it was aimed at messages
\* of two folders, one of them holding a flag it adds, and left one alone.
C10_Witness ==
    \E t \in Tasks :
        /\ UpdateFlagsDone(t)
        /\ tasks[t].addFlags # <<>>
        /\ tasks[t].removeFlags # <<>>
        /\ Cardinality({m.folderId : m \in Targeted(t, messages)}) = 2
        /\ messages \ Targeted(t, messages) # {}
        /\ \E m \in Targeted(t, hist[t].preMessages) :
              Range(m.flags) \cap Range(tasks[t].addFlags) # {}

\* The call removed the flag f from the messages to which the call before it,
\* successful, had added f.
RoundTrip(t, f) ==
    /\ UpdateFlagsDone(t)
    /\ tasks[t].addFlags = <<>>
    /\ tasks[t].removeFlags = <<f>>
    /\ hist[t].after.op = "updateFlags"
    /\ hist[t].after.ok
    /\ hist[t].after.clean
    /\ hist[t].after.acct = tasks[t].acct
    /\ hist[t].after.emailIds = tasks[t].emailIds
    /\ hist[t].after.addFlags = <<f>>
    /\ hist[t].after.removeFlags = <<>>

\* C9 as stated: adding f and then removing f leaves each message's flag set
\* as it was before the first call, whatever it was.
C9_RoundTrip ==
    \A t \in Tasks, f \in Flags :
        RoundTrip(t, f) =>
            \A m \in Targeted(t, messages) :
                Range(m.flags) = Range(FlagsIn(hist[t].after.pre, m.id))

\* C9, amended: adding f and then removing f leaves the flags of each message
\* that did not have f before the first call as they were, order included; a
\* message that had f ends with its other flags and without f.
C9_RoundTripUnlessPresent ==
    \A t \in Tasks, f \in Flags :
        RoundTrip(t, f) =>
            \A m \in Targeted(t, messages) :
                LET old == FlagsIn(hist[t].after.pre, m.id)
                IN /\ f \notin Range(old) => m.flags = old
                   /\ f \in Range(old) =>
                         /\ Range(m.flags) = Range(old) \ {f}
                         /\ Range(m.flags) # Range(old)

\* A round trip has returned on two messages: one had other flags and not f,
\* one had f.
C9_Witness ==
    \E t \in Tasks, f \in Flags :
        /\ RoundTrip(t, f)
        /\ \E m \in Targeted(t, hist[t].after.pre) :
              f \notin Range(m.flags) /\ m.flags # <<>>
        /\ \E m \in Targeted(t, hist[t].after.pre) : f \in Range(m.flags)

(***************************************************************************)
(* Properties of moveMessages.                                             *)
(***************************************************************************)
MoveMessagesDone(t) == tasks[t].op = "moveMessages" /\ tasks[t].pc = "done"

\* C11 as stated: after a successful moveMessages no row is left for a moved
\* message, and the rows of the target folder are what they were.
C11_TargetRowsUnchanged ==
    \A t \in Tasks :
        MoveMessagesDone(t) =>
            /\ \A m \in Targeted(t, hist[t].preMessages) :
                  \A r \in messages : r.id # m.id
            /\ MessagesIn(tasks[t].targetFolderId)
                 = {m \in hist[t].preMessages :
                       m.folderId = tasks[t].targetFolderId}

\* C11, amended: after a successful moveMessages the message rows are the rows
\* from before the call without the moved ones: no row is inserted, under the
\* target or elsewhere, and the target keeps its rows except those that were
\* themselves among the moved messages.
C11_MovedRowsRemoved ==
    \A t \in Tasks :
        MoveMessagesDone(t) =>
            messages = hist[t].preMessages \ Targeted(t, hist[t].preMessages)

\* A moveMessages has returned that moved a message of the target folder and
\* one of another folder, the target keeping a row.
C11_Witness ==
    \E t \in Tasks :
        /\ MoveMessagesDone(t)
        /\ \E m \in Targeted(t, hist[t].preMessages) :
              m.folderId = tasks[t].targetFolderId
        /\ \E m \in Targeted(t, hist[t].preMessages) :
              m.folderId # tasks[t].targetFolderId
        /\ MessagesIn(tasks[t].targetFolderId) # {}

\* moveMessages threw on an IMAP command for the folder it had at hand, the
\* mailbox of that folder open, in a batch that spans a second folder.
MoveFailedOn(t, f) ==
    /\ tasks[t].op = "moveMessages"
    /\ tasks[t].pc = "failed"
    /\ tasks[t].error = "IMAP command failed"
    /\ tasks[t].folder = f
    /\ clients[tasks[t].client].selected = f.path
    /\ \E m \in Targeted(t, hist[t].preMessages) : m.folderId # f.id

\* C12: when the remote command of a batch fails for folder A, the command for
\* the other folder B of the batch is still executed and B's local change is
\* committed, whichever of the two is processed first.
C12_SiblingFolderCommitted ==
    \A t \in Tasks, f \in folders :
        MoveFailedOn(t, f) =>
            \A m \in Targeted(t, hist[t].preMessages) :
                m.folderId # f.id =>
                    /\ \A r \in messages : r.id # m.id
                    /\ \E i \in DOMAIN cmdLog :
                          /\ cmdLog[i].task = t
                          /\ cmdLog[i].command = "messageMove"
                          /\ m.uid \in Range(cmdLog[i].uids)
                          /\ cmdLog[i].path # f.path

(***************************************************************************)
(* Properties of getEmail.                                                 *)
(***************************************************************************)
\* The body rows the message had in the cache when the call started.
CachedAtStart(t) ==
    IF tasks[t].op = "getEmail" /\ hist[t] # NoHist
    THEN {b \in hist[t].preBodies : b.messageId = tasks[t].messageId}
    ELSE {}

\* The user owns the account and the message is the account's.
OwnMessage(t) ==
    /\ accountsDb[tasks[t].acct] # NoRow
    /\ accountsDb[tasks[t].acct].userId = tasks[t].user
    /\ \E m \in messages : m.id = tasks[t].messageId /\ m.accountId = tasks[t].acct

\* C17: a getEmail of a message whose body was in message_bodies when the
\* call started never calls getConnection and never touches the pool or the
\* server, and when the caller owns the message it returns the textBody and
\* htmlBody of the cached row.
C17_CachedBodyServed ==
    [][\A t \in Tasks :
          (CachedAtStart(t) # {} /\ tasks'[t] # tasks[t]) =>
              /\ tasks'[t].pc \in {"ge_message", "ge_body", "done", "failed", "idle"}
              /\ UNCHANGED <<poolVars, srvVars, dbVars>>
              /\ tasks'[t].pc = "failed" => ~OwnMessage(t)
              /\ tasks'[t].pc = "done" =>
                    \E b \in CachedAtStart(t) :
                        /\ tasks'[t].textBody = b.textBody
                        /\ tasks'[t].htmlBody = b.htmlBody]_vars

\* A getEmail has returned a body that was cached before it started.
C17_Witness ==
    \E t \in Tasks :
        /\ tasks[t].op = "getEmail" /\ tasks[t].pc = "done"
        /\ tasks[t].body \in CachedAtStart(t)
        /\ tasks[t].htmlBody = "html"
        /\ tasks[t].client = 0

(***************************************************************************)
(* Properties of AutoconfigService.lookup.                                 *)
(***************************************************************************)
\* A lookup that has returned.
LookupDone(t) == tasks[t].op = "lookup" /\ tasks[t].pc = "done"

\* The position in Sources of the first source that has a configuration for
\* the domain, 0 if none has.
FirstSource(domain) ==
    LET has == {i \in 1 .. Len(Sources) :
                  IF Sources[i] = "preset" THEN domain = "gmail.com"
                  ELSE net[domain][Sources[i]]}
    IN IF has = {} THEN 0 ELSE CHOOSE i \in has : \A j \in has : i <= j

\* C23: a lookup that is not answered from the cache asks preset, DNS SRV,
\* domain autoconfig, ISPDB and MX pattern in that order up to the first one
\* that has a configuration, and returns found with that source's name; it
\* returns found = false when none has one, and, without asking any source,
\* when the address has no domain part.
C23_FirstSourceWins ==
    \A t \in Tasks :
        (LookupDone(t) /\ ~tasks[t].fromCache) =>
            IF tasks[t].domain \notin Domains
            THEN tasks[t].result = NotFound /\ tasks[t].consulted = <<>>
            ELSE LET first == FirstSource(tasks[t].domain)
                 IN IF first = 0
                    THEN /\ tasks[t].result = NotFound
                         /\ tasks[t].consulted = Sources
                    ELSE /\ tasks[t].result = Found(Sources[first])
                         /\ tasks[t].consulted = SubSeq(Sources, 1, first)

\* A lookup has returned the answer of the fourth source after the first
\* three had none.
C23_Witness ==
    \E t \in Tasks :
        /\ LookupDone(t)
        /\ tasks[t].result = Found("ispdb")
        /\ tasks[t].consulted = <<"preset", "srv", "autoconfig", "ispdb">>
        /\ net[tasks[t].domain]["mx"]

\* The cache had an entry for the domain younger than the time to live when
\* the call was made.
CachedAtCall(t) ==
    /\ hist[t].preCache # NoEntry
    /\ hist[t].at - hist[t].preCache.timestamp < CACHE_TTL_MS

\* C24: a lookup caches what it returns, not-found included; a lookup of a
\* domain whose cached entry is younger than the time to live returns the
\* cached result and asks no source, and a lookup of a domain without such an
\* entry (never looked up, expired, or cleared) asks the sources again.
C24_CachedPerDomain ==
    /\ [](\A t \in Tasks :
            (LookupDone(t) /\ tasks[t].domain \in Domains) =>
                IF CachedAtCall(t)
                THEN /\ tasks[t].result = hist[t].preCache.result
                     /\ tasks[t].consulted = <<>>
                ELSE tasks[t].consulted # <<>>)
    /\ [][\A t \in Tasks :
            (/\ tasks[t].pc # "done" /\ tasks'[t].pc = "done"
             /\ tasks'[t].op = "lookup" /\ ~tasks'[t].fromCache
             /\ tasks'[t].domain \in Domains) =>
                cache'[tasks'[t].domain] =
                    [result |-> tasks'[t].result, timestamp |-> now]]_vars

\* A lookup has returned a cached not-found although a source has a
\* configuration for the domain by now.
C24_Witness ==
    \E t \in Tasks :
        /\ LookupDone(t)
        /\ CachedAtCall(t)
        /\ tasks[t].result = NotFound
        /\ tasks[t].consulted = <<>>
        /\ FirstSource(tasks[t].domain) # 0

(***************************************************************************)
(* Properties of the three mutations.                                      *)
(***************************************************************************)
\* The call in flight was made for an account that is not the caller's, or is
\* a moveMessages whose target is not a folder of the account.
Unauthorized(t) ==
    /\ tasks[t].pc # "idle"
    /\ \/ tasks[t].op \in {"updateFlags", "moveMessages", "deleteMessages"}
    /\ \/ accountsDb[tasks[t].acct].userId # tasks[t].user
       \/ /\ tasks[t].op = "moveMessages"
          /\ tasks[t].outer = ""
          /\ \A f \in folders :
                f.id = tasks[t].targetFolderId => f.accountId # tasks[t].acct

\* C13: while an unauthorized updateFlags, moveMessages or deleteMessages is
\* in flight, no step changes the pool, the local storage or the server, and
\* the call gets no further than its checks: it ends with an error without
\* having asked for the session or sent an IMAP command.
C13_RejectedBeforeNetwork ==
    [][\A t \in Tasks :
          Unauthorized(t) =>
              /\ UNCHANGED <<poolVars, dbVars, srvVars>>
              /\ tasks'[t].pc \in {"uf_account", "mv_account", "mv_target",
                                   "dm_account", "failed", "idle"}
              /\ tasks'[t].client = 0]_vars

\* A moveMessages by the owner was rejected for a target folder of another
\* account.
C13_Witness ==
    \E t \in Tasks :
        /\ Unauthorized(t)
        /\ tasks[t].op = "moveMessages"
        /\ accountsDb[tasks[t].acct].userId = tasks[t].user
        /\ tasks[t].pc = "failed"
        /\ tasks[t].error = "Target folder not found"
        /\ messages = hist[t].preMessages

\* A permanent deleteMessages by the account's owner has returned.
PermanentDeleteDone(t) ==
    /\ tasks[t].op = "deleteMessages" /\ tasks[t].pc = "done"
    /\ tasks[t].permanent
    /\ accountsDb[tasks[t].acct].userId = tasks[t].user

\* The message the row mirrors is in its mailbox on the server.
OnServer(m) ==
    \E f \in folders :
        /\ f.id = m.folderId
        /\ f.path \in DOMAIN server[f.accountId]
        /\ m.uid \in DOMAIN server[f.accountId][f.path].msgs

\* C25: after a permanent deleteMessages every message of the account that
\* ids does not name is still on the server, and the local rows are those
\* from before the call without the rows of ids.
C25_OnlyNamedDeleted ==
    \A t \in Tasks :
        PermanentDeleteDone(t) =>
            /\ \A m \in hist[t].preMessages :
                  (m.accountId = tasks[t].acct /\ m.id \notin tasks[t].emailIds)
                     => OnServer(m)
            /\ messages = {m \in hist[t].preMessages : m.id \notin tasks[t].emailIds}

\* The task is inside updateFlags, moveMessages or deleteMessages.
InMutation(t) ==
    /\ tasks[t].pc \notin {"idle", "done", "failed"}
    /\ \/ tasks[t].op \in {"updateFlags", "moveMessages", "deleteMessages"}
       \/ tasks[t].outer = "deleteMessages"

\* C26: no step of updateFlags, moveMessages or deleteMessages called for an
\* account changes or deletes a message row of another account, and every
\* folder such a call opens on the account's session is a folder of the
\* account.
C26_OtherAccountsUntouched ==
    [][\A t \in Tasks :
          (InMutation(t) /\ tasks'[t] # tasks[t]) =>
              /\ {m \in messages' : m.accountId # tasks[t].acct}
                    = {m \in messages : m.accountId # tasks[t].acct}
              /\ (tasks[t].pc \in {"uf_open", "mv_open", "dm_open"}
                    /\ tasks'[t].pc # "failed")
                     => tasks[t].folder.accountId = tasks[t].acct]_vars

(***************************************************************************)
(* Properties of operations that share a session.                          *)
(***************************************************************************)
\* The mailbox the call opened for the command it is about to issue.
OpenedPath(t) ==
    IF tasks[t].pc = "sf_fetch" THEN tasks[t].path ELSE tasks[t].folder.path

\* C27: every UID-addressed command of an operation is carried out while the
\* mailbox the operation opened is the one selected on the session.
C27_CommandInOpenedMailbox ==
    [][\A t \in Tasks :
          (/\ tasks[t].pc \in {"sf_fetch", "uf_add", "uf_remove", "mv_move",
                               "dm_expunge"}
           /\ tasks'[t].pc # tasks[t].pc
           /\ tasks'[t].pc # "failed") =>
              clients[tasks[t].client].selected = OpenedPath(t)]_vars

(***************************************************************************)
(* Properties of a batch that fails part-way.                              *)
(***************************************************************************)
\* updateFlags or moveMessages stopped by a failed IMAP command.
BatchFailed(t) ==
    /\ tasks[t].op \in {"updateFlags", "moveMessages"}
    /\ tasks[t].outer = ""
    /\ tasks[t].pc = "failed"
    /\ tasks[t].error = "IMAP command failed"

\* The folders of the groups still in byFolder: the group that failed first,
\* the groups the loop never reached after it.
GroupFolders(t, from) ==
    {tasks[t].byFolder[i].folderId : i \in from .. Len(tasks[t].byFolder)}

\* The rows of the call whose group was finished before the failure.
CompletedRows(t) ==
    {m \in Targeted(t, hist[t].preMessages) : m.folderId \notin GroupFolders(t, 1)}

\* The rows of the call whose group the loop never reached.
UnreachedRows(t) ==
    {m \in Targeted(t, hist[t].preMessages) : m.folderId \in GroupFolders(t, 2)}

\* The rows of the call whose group was not finished: the failing group and
\* the groups after it.  The mirror is written after the commands of a group.
UnfinishedRows(t) ==
    {m \in Targeted(t, hist[t].preMessages) : m.folderId \in GroupFolders(t, 1)}

PathOfFolder(fid) == (CHOOSE f \in folders : f.id = fid).path

CommandsOn(t, path) ==
    {i \in DOMAIN cmdLog : cmdLog[i].task = t /\ cmdLog[i].path = path}

\* The change of a finished group is on the server and in the mirror.
GroupCommitted(t, m) ==
    LET mb == server[tasks[t].acct][PathOfFolder(m.folderId)]
    IN IF tasks[t].op = "moveMessages"
       THEN /\ \A r \in messages : r.id # m.id
            /\ m.uid \notin DOMAIN mb.msgs
            /\ \E i \in CommandsOn(t, PathOfFolder(m.folderId)) :
                  /\ cmdLog[i].command = "messageMove"
                  /\ m.uid \in Range(cmdLog[i].uids)
       ELSE /\ \E r \in messages :
                  /\ r.id = m.id
                  /\ r.flags = UpdatedFlags(m.flags, tasks[t].addFlags,
                                            tasks[t].removeFlags)
            /\ m.uid \in DOMAIN mb.msgs
            /\ Range(tasks[t].addFlags) \subseteq Range(mb.msgs[m.uid])
            /\ Range(tasks[t].removeFlags) \cap Range(mb.msgs[m.uid]) = {}

\* C28: when an IMAP command fails in the middle of a batch of updateFlags
\* or moveMessages over several folders, no command was sent for the groups
\* after the failing one, the rows of the failing group and of the groups
\* after it are in the mirror as they were, and every group finished before
\* the failure keeps its change on the server and in the mirror.
C28_PartialBatchCommitted ==
    \A t \in Tasks :
       BatchFailed(t) =>
          /\ \A m \in UnreachedRows(t) :
                CommandsOn(t, PathOfFolder(m.folderId)) = {}
          /\ \A m \in UnfinishedRows(t) : m \in messages
          /\ \A m \in CompletedRows(t) : GroupCommitted(t, m)

\* A batch failed in its second folder after the first was finished, for
\* each of the two methods; a third case has a group never reached.
C28_Witness ==
    /\ BatchFailed("t1")
    /\ tasks["t1"].op = "moveMessages"
    /\ CompletedRows("t1") # {}
    /\ Len(tasks["t1"].byFolder) = 1

C28_WitnessFlags ==
    /\ BatchFailed("t1")
    /\ tasks["t1"].op = "updateFlags"
    /\ CompletedRows("t1") # {}

C28_WitnessUnreached ==
    /\ BatchFailed("t1")
    /\ UnreachedRows("t1") # {}

(***************************************************************************)
(* Properties of the events of a client the pool no longer holds.          *)
(***************************************************************************)
\* The pool's entry for the client's account is for another client, or there
\* is none: the client was replaced by a later connect or removed.
Superseded(c) ==
    \/ connections[clients[c].accountId] = NoConn
    \/ connections[clients[c].accountId].client # c

\* C29: an event of a client that is no longer the one in the pool's entry
\* of its account leaves the pool's entries as they are.  Stated on 'close',
\* the event whose step names its client (the client becomes closed);
\* handleError does to the entry what handleDisconnect does.
C29_StaleEventIgnored ==
    [][\A c \in DOMAIN clients :
          (Superseded(c) /\ ClientClose(c)) => connections' = connections]_vars

(***************************************************************************)
(* Properties of deleteMessages(permanent = false).                        *)
(***************************************************************************)
\* The account has a folder classified as trash.
HasTrash(a) == \E f \in folders : f.accountId = a /\ f.specialUse = "trash"

\* deleteMessages has returned without throwing.
DeleteDone(t) ==
    /\ tasks[t].op = "deleteMessages"
    /\ tasks[t].outer = ""
    /\ tasks[t].pc = "done"

CommandsOf(t) == {cmdLog[i] : i \in {j \in DOMAIN cmdLog : cmdLog[j].task = t}}

\* The rows named by ids went to the trash folder by messageMove, and no other
\* command was sent.
MovedToTrash(t) ==
    /\ ~tasks[t].permanent
    /\ tasks[t].targetFolder \in folders
    /\ tasks[t].targetFolder.accountId = tasks[t].acct
    /\ tasks[t].targetFolder.specialUse = "trash"
    /\ \A e \in CommandsOf(t) : e.command = "messageMove"
    /\ \A m \in Targeted(t, hist[t].preMessages) :
          \E e \in CommandsOf(t) :
             /\ e.path = PathOfFolder(m.folderId)
             /\ m.uid \in Range(e.uids)

\* The call went on as deleteMessages(permanent = true).
DeletedPermanently(t) ==
    /\ tasks[t].permanent
    /\ \A e \in CommandsOf(t) : e.command \in {"messageFlagsAdd", "messageDelete"}
    /\ \A m \in hist[t].preMessages :
          m.id \in tasks[t].emailIds =>
             \E e \in CommandsOf(t) :
                /\ e.command = "messageDelete"
                /\ e.path = PathOfFolder(m.folderId)

\* C30, as stated: after deleteMessages(ids, permanent = false) no local row
\* is left for any of ids.
C30_RowsOfIdsGone ==
    \A t \in Tasks :
       DeleteDone(t) => \A m \in messages : m.id \notin tasks[t].emailIds

\* C30, amended: deleteMessages(ids, permanent = false) ends; it moves the
\* account's messages among ids to the trash folder when the account has one
\* and deletes permanently when it has none; afterwards no local row is left
\* for a message of the account among ids.  With a trash folder the rows of
\* other accounts named in ids stay; without one they are deleted as well.
C30_TrashOrPermanent ==
    /\ [](\A t \in Tasks :
            DeleteDone(t) =>
               /\ \A m \in messages :
                     m.accountId = tasks[t].acct => m.id \notin tasks[t].emailIds
               /\ IF HasTrash(tasks[t].acct)
                  THEN /\ MovedToTrash(t)
                       /\ \A m \in hist[t].preMessages :
                             m.accountId # tasks[t].acct => m \in messages
                  ELSE /\ DeletedPermanently(t)
                       /\ \A m \in messages : m.id \notin tasks[t].emailIds)
    /\ \A t \in Tasks :
          (tasks[t].op = "deleteMessages" /\ tasks[t].pc = "dm_account")
             ~> (tasks[t].outer = "" /\ tasks[t].pc \in {"done", "failed"})

\* Both ways were taken: messages of INBOX and of the trash folder moved to
\* the trash folder, and a permanent deletion for want of one.
C30_Witness ==
    /\ DeleteDone("t1")
    /\ HasTrash("acc1")
    /\ MovedToTrash("t1")
    /\ tasks["t1"].emailIds = {3, 5}

C30_WitnessPermanent ==
    /\ DeleteDone("t1")
    /\ ~HasTrash("acc1")
    /\ DeletedPermanently("t1")
    /\ Targeted("t1", hist["t1"].preMessages) # {}

(***************************************************************************)
(* Properties of the flag comparison of syncFolder.                        *)
(***************************************************************************)
\* The message the loop of syncFolder is about to look at is a known one.
AtKnownMessage(t) ==
    /\ tasks[t].op = "syncFolder"
    /\ tasks[t].pc = "sf_loop"
    /\ tasks[t].fetched # <<>>
    /\ Head(tasks[t].fetched).uid \in DOMAIN tasks[t].existingUids

\* C31: syncFolder counts a known UID in updatedMessages, and rewrites its
\* row, only when the fetched flags and the stored flags differ as sets.
C31_FlagSetDecides ==
    [][\A t \in Tasks :
          (AtKnownMessage(t) /\ tasks'[t] # tasks[t]) =>
             LET msg == Head(tasks[t].fetched)
                 differ == Range(msg.flags) # Range(tasks[t].existingUids[msg.uid])
             IN /\ (tasks'[t].updatedMessages # tasks[t].updatedMessages) => differ
                /\ (messages' # messages) => differ]_vars

\* C31, the case named: a syncFolder of INBOX that follows a successful
\* updateFlags, nothing changed on the server by anyone else, reports
\* updatedMessages = 0 and leaves the rows as they were.
C31_ResyncAfterUpdateFlags ==
    \A t \in Tasks :
       (/\ SyncFolderDone(t)
        /\ tasks[t].path = "INBOX"
        /\ hist[t].after.op = "updateFlags"
        /\ hist[t].after.ok
        /\ hist[t].after.clean
        /\ ~hist[t].dirty) =>
          /\ tasks[t].updatedMessages = 0
          /\ messages = hist[t].preMessages

(***************************************************************************)
(* Properties of the inserts of syncFolder.                                *)
(***************************************************************************)
\* The UIDs of the mailbox the call did not know when it read existingUids.
NewUids(t) ==
    DOMAIN server[tasks[t].acct][tasks[t].path].msgs \ DOMAIN tasks[t].existingUids

\* C32: a syncFolder that has returned went through every new message, the
\* ones whose insert failed skipped, and its newMessages is the number of
\* message rows it wrote.
C32_InsertFailureSkipped ==
    \A t \in Tasks :
       SyncFolderDone(t) =>
          /\ tasks[t].newMessages + tasks[t].insertErrors = Cardinality(NewUids(t))
          /\ tasks[t].newMessages = tasks[t].rowsAdded

(***************************************************************************)
(* Properties of the snapshot of known UIDs.                               *)
(***************************************************************************)
\* The call is between reading existingUids and returning.
AfterSnapshot(t) ==
    /\ tasks[t].op = "syncFolder"
    /\ tasks[t].pc \in {"sf_fetch", "sf_loop", "im_attachment", "sf_status",
                        "sf_unread", "done"}

\* The UIDs and flags of the rows the folder has in the table now.
LiveUids(folderId) ==
    LET rows == {m \in messages : m.folderId = folderId}
    IN [u \in {m.uid : m \in rows} |-> (CHOOSE m \in rows : m.uid = u).flags]

\* C33: syncFolder reads the known UIDs once, from the table as it is after
\* the delete of an invalidation and before the fetch, and decides for every
\* fetched message against what it read: a message is inserted exactly when
\* its UID is not in the snapshot, whatever the table holds by then.
C33_DecisionsFromSnapshot ==
    [][\A t \in Tasks :
          /\ (tasks'[t].pc = "sf_invalidate" /\ tasks[t].pc # "sf_invalidate") =>
                tasks[t].pc = "sf_open"
          /\ (tasks'[t].pc = "sf_existing" /\ tasks[t].pc # "sf_existing") =>
                /\ tasks[t].pc = "sf_updateFolder"
                /\ tasks[t].uidValidityChanged =>
                      \A m \in messages' :
                         m.folderId = tasks[t].folder.id =>
                            m \notin hist[t].preMessages
          /\ (tasks[t].pc = "sf_existing" /\ tasks'[t].pc # "sf_existing") =>
                tasks'[t].existingUids = LiveUids(tasks[t].folder.id)
          /\ (tasks'[t].pc = "sf_fetch" /\ tasks[t].pc # "sf_fetch") =>
                tasks[t].pc = "sf_existing"
          /\ (AfterSnapshot(t) /\ tasks'[t].op = "syncFolder") =>
                tasks'[t].existingUids = tasks[t].existingUids
          /\ (tasks[t].pc = "sf_loop" /\ tasks'[t] # tasks[t]) =>
                LET uid == Head(tasks[t].fetched).uid
                IN (\/ tasks'[t].rowsAdded # tasks[t].rowsAdded
                    \/ tasks'[t].insertErrors # tasks[t].insertErrors)
                   <=> uid \notin DOMAIN tasks[t].existingUids]_vars

\* A call has decided against its snapshot while the table said otherwise: the
\* UID was inserted by the other call in between, and the insert was refused.
C33_Witness ==
    \E t \in Tasks :
       /\ SyncFolderDone(t)
       /\ tasks[t].insertErrors > 0
       /\ \E u \in UidsIn(tasks[t].folder.id) : u \notin DOMAIN tasks[t].existingUids

(***************************************************************************)
(* Properties of the persisted connection status.                          *)
(***************************************************************************)
\* C34: when no call is in flight, an account row says isConnected only if
\* the pool holds an entry for the account that is marked connected.
C34_PersistedStatusFollowsPool ==
    Quiescent =>
       \A a \in Accounts :
          (accountsDb[a] # NoRow /\ accountsDb[a].isConnected) =>
             /\ connections[a] # NoConn
             /\ connections[a].isConnected

(***************************************************************************)
(* Properties of fetchMessageBody and of what getEmail caches.             *)
(***************************************************************************)
Placeholder == "(Unable to load message content)"

\* fetchMessageBody is past mailboxOpen and has not returned.
FetchingBody(t) == tasks[t].pc \in {"fmb_download", "fmb_parts"}

\* C35: once the folder is open fetchMessageBody does not throw; the download
\* is tried once, right after the open; the body parts are fetched only after
\* a download that failed or gave nothing; and what is returned has a text or
\* an HTML body, the placeholder only when the body parts gave nothing too.
C35_AlwaysABody ==
    [][\A t \in Tasks :
          /\ FetchingBody(t) => tasks'[t].pc # "failed"
          /\ (tasks'[t].pc = "fmb_download" /\ tasks[t].pc # "fmb_download") =>
                tasks[t].pc = "fmb_open"
          /\ (tasks'[t].pc = "fmb_parts" /\ tasks[t].pc # "fmb_parts") =>
                /\ tasks[t].pc = "fmb_download"
                /\ tasks'[t].textBody = Null
                /\ tasks'[t].htmlBody = Null
          /\ (FetchingBody(t) /\ tasks'[t].pc = "ge_insert") =>
                /\ tasks'[t].textBody # Null \/ tasks'[t].htmlBody # Null
                /\ tasks'[t].textBody # "" /\ tasks'[t].htmlBody # ""
                /\ tasks'[t].textBody = Placeholder =>
                      (tasks[t].pc = "fmb_parts" /\ tasks'[t].htmlBody = Null)]_vars

\* Both ways gave nothing and the placeholder was returned.
C35_Witness ==
    \E t \in Tasks :
       /\ tasks[t].op = "getEmail"
       /\ tasks[t].pc = "ge_insert"
       /\ tasks[t].textBody = Placeholder

\* C36: message_bodies never holds the placeholder: a body is cached only
\* when the server gave content.
C36_PlaceholderNotCached ==
    \A b \in messageBodies : b.textBody # Placeholder

(***************************************************************************)
(* Properties of the WebSocket layer.                                      *)
(***************************************************************************)
AccountPayloads == {PayloadType(event) : event \in PoolEvents}

\* C37: an event of the pool about an account is sent only on sockets of the
\* user who owns the account.
C37_EventsOnlyToOwner ==
    \A m \in wsSent :
       m.type \in AccountPayloads =>
          /\ accountsDb[m.accountId] # NoRow
          /\ accountsDb[m.accountId].userId = m.userId

(***************************************************************************)
(* Properties of the stored part identifiers.                              *)
(***************************************************************************)
\* The structure of the message a row mirrors, as the server has it.
StructureOfRow(m) ==
    LET f == CHOOSE f \in folders : f.id = m.folderId
    IN StructureOf(server[m.accountId][f.path], m.uid)

\* C38: the partId stored with an attachment addresses, on the server, a part
\* of the message with the disposition that was stored: the part the
\* attachment was found at.
C38_PartIdAddressesNode ==
    \A x \in attachments :
       \A m \in messages :
          m.id = x.messageId =>
             LET part == ImapPart(StructureOfRow(m), x.partId)
             IN /\ part # NoNode
                /\ part.disposition = x.disposition

====
